---- MODULE Spec2Model ----
(***************************************************************************)
(* Model of the streaming translation engine of claude-code-proxy:         *)
(*   - StreamingJsonParser (src/src/streaming/parser.rs)                   *)
(*   - SSEEventGenerator   (src/src/streaming/sse.rs)                      *)
(* Bytes are one-character strings; a buffer is a sequence of bytes.       *)
(***************************************************************************)
EXTENDS Integers, Sequences, FiniteSets, TLC

\* ------------------------------------------------------------------------
\* Bounds of the model
\* ------------------------------------------------------------------------
\* number of array elements of an upstream byte stream
MaxElems == 2
\* number of atoms (plain or escaped characters) inside a string literal
MaxStrLen == 2
\* number of chunks passed to one SSEEventGenerator
MaxChunks == 3
\* number of parts in the content of a candidate
MaxParts == 2
\* number of tool_use blocks of one connection
MaxTools == 3

\* ------------------------------------------------------------------------
\* Bytes
\* ------------------------------------------------------------------------
LB == "["
RB == "]"
LC == "{"
RC == "}"
COMMA == ","
COLON == ":"
SP == " "
QT == "\""
BS == "\\"
DIGIT == "1"
LETTER == "k"
EOF == "EOF"

At(b, i) == IF i >= 1 /\ i <= Len(b) THEN b[i] ELSE EOF

Drop(b, n) == SubSeq(b, n + 1, Len(b))

\* ------------------------------------------------------------------------
\* serde_json::from_slice::<GeminiStreamChunk>: a JSON object, nothing
\* before or after it but whitespace.  Every field of GeminiStreamChunk is
\* optional or defaulted and unknown fields are ignored; the keys of the
\* model are never field names, so an object deserializes iff it is
\* syntactically valid JSON.  The Json* operators return the position after
\* the construct they parse, 0 when the bytes are no such construct.
\* ------------------------------------------------------------------------
RECURSIVE JsonWs(_, _)
JsonWs(b, i) == IF At(b, i) = SP THEN JsonWs(b, i + 1) ELSE i

RECURSIVE JsonStringBody(_, _)
JsonStringBody(b, i) ==
    CASE At(b, i) = EOF -> 0
      [] At(b, i) = QT -> i + 1
      [] At(b, i) = BS -> IF At(b, i + 1) \in {QT, BS}
                          THEN JsonStringBody(b, i + 2)
                          ELSE 0
      [] OTHER -> JsonStringBody(b, i + 1)

JsonString(b, i) == IF At(b, i) = QT THEN JsonStringBody(b, i + 1) ELSE 0

RECURSIVE JsonNumber(_, _)
JsonNumber(b, i) == IF At(b, i) = DIGIT THEN JsonNumber(b, i + 1) ELSE i

RECURSIVE JsonValue(_, _)
RECURSIVE JsonMembers(_, _)
RECURSIVE JsonItems(_, _)

JsonObject(b, i) ==
    IF At(b, i) # LC THEN 0
    ELSE LET j == JsonWs(b, i + 1)
         IN  IF At(b, j) = RC THEN j + 1 ELSE JsonMembers(b, j)

JsonArray(b, i) ==
    IF At(b, i) # LB THEN 0
    ELSE LET j == JsonWs(b, i + 1)
         IN  IF At(b, j) = RB THEN j + 1 ELSE JsonItems(b, j)

JsonValue(b, i) ==
    CASE At(b, i) = QT -> JsonString(b, i)
      [] At(b, i) = LC -> JsonObject(b, i)
      [] At(b, i) = LB -> JsonArray(b, i)
      [] At(b, i) = DIGIT -> JsonNumber(b, i)
      [] OTHER -> 0

JsonMembers(b, i) ==
    LET s == JsonString(b, i)
        c == JsonWs(b, s)
        v == JsonValue(b, JsonWs(b, c + 1))
        e == JsonWs(b, v)
    IN  IF s = 0 \/ At(b, c) # COLON \/ v = 0 THEN 0
        ELSE IF At(b, e) = RC THEN e + 1
        ELSE IF At(b, e) = COMMA THEN JsonMembers(b, JsonWs(b, e + 1))
        ELSE 0

JsonItems(b, i) ==
    LET v == JsonValue(b, i)
        e == JsonWs(b, v)
    IN  IF v = 0 THEN 0
        ELSE IF At(b, e) = RB THEN e + 1
        ELSE IF At(b, e) = COMMA THEN JsonItems(b, JsonWs(b, e + 1))
        ELSE 0

Deserializes(b) ==
    LET e == JsonObject(b, JsonWs(b, 1))
    IN  e # 0 /\ JsonWs(b, e) = Len(b) + 1

\* The value a candidate deserializes to: its bytes without the whitespace
\* between tokens (two spellings of one object give one value).
RECURSIVE StripWs(_, _, _, _)
StripWs(b, i, in_string, escaped) ==
    IF i > Len(b) THEN <<>>
    ELSE IF in_string
         THEN <<b[i]>> \o StripWs(b, i + 1, escaped \/ b[i] # QT,
                                  ~escaped /\ b[i] = BS)
         ELSE IF b[i] = SP THEN StripWs(b, i + 1, FALSE, FALSE)
              ELSE <<b[i]>> \o StripWs(b, i + 1, b[i] = QT, FALSE)

ChunkValue(b) == StripWs(b, 1, FALSE, FALSE)

\* ------------------------------------------------------------------------
\* StreamingJsonParser
\* ------------------------------------------------------------------------
\* skip_noise: the buffer without its leading '[', ',', whitespace (SP stands
\* for the four whitespace bytes the code skips)
RECURSIVE skip_noise(_)
skip_noise(p) ==
    IF Len(p.buffer) = 0 THEN p
    ELSE IF p.buffer[1] = LB
         THEN skip_noise([p EXCEPT !.buffer = Drop(p.buffer, 1),
                                   !.array_started = TRUE])
    ELSE IF p.buffer[1] \in {COMMA, SP}
         THEN skip_noise([p EXCEPT !.buffer = Drop(p.buffer, 1)])
    ELSE p

\* the loop of find_object_boundary from byte i on: 0 stands for None
RECURSIVE ScanBoundary(_, _, _, _, _)
ScanBoundary(b, i, depth, in_string, escaped) ==
    IF i > Len(b) THEN 0
    ELSE IF in_string
         THEN IF escaped THEN ScanBoundary(b, i + 1, depth, TRUE, FALSE)
              ELSE IF b[i] = BS THEN ScanBoundary(b, i + 1, depth, TRUE, TRUE)
              ELSE IF b[i] = QT THEN ScanBoundary(b, i + 1, depth, FALSE, FALSE)
              ELSE ScanBoundary(b, i + 1, depth, TRUE, FALSE)
         ELSE IF b[i] = QT THEN ScanBoundary(b, i + 1, depth, TRUE, escaped)
              ELSE IF b[i] = LC THEN ScanBoundary(b, i + 1, depth + 1, FALSE, escaped)
              ELSE IF b[i] = RC
                   THEN IF depth - 1 = 0 THEN i
                        ELSE ScanBoundary(b, i + 1, depth - 1, FALSE, escaped)
              ELSE ScanBoundary(b, i + 1, depth, FALSE, escaped)

\* a scan that forgets the escape state: a quote after a backslash ends the string
RECURSIVE ScanNoEscape(_, _, _, _)
ScanNoEscape(b, i, depth, in_string) ==
    IF i > Len(b) THEN 0
    ELSE IF in_string
         THEN ScanNoEscape(b, i + 1, depth, b[i] # QT)
         ELSE IF b[i] = QT THEN ScanNoEscape(b, i + 1, depth, TRUE)
              ELSE IF b[i] = LC THEN ScanNoEscape(b, i + 1, depth + 1, FALSE)
              ELSE IF b[i] = RC
                   THEN IF depth - 1 = 0 THEN i
                        ELSE ScanNoEscape(b, i + 1, depth - 1, FALSE)
              ELSE ScanNoEscape(b, i + 1, depth, FALSE)

find_object_boundary_no_escape(b) == ScanNoEscape(b, 1, 0, FALSE)

\* find_object_boundary: the length of the first brace-balanced prefix
find_object_boundary(b) == ScanBoundary(b, 1, 0, FALSE, FALSE)

\* The parser together with what one call of extract_objects has produced:
\* results (the chunks pushed), cut (the candidates split off the buffer).
NewParser == [buffer |-> <<>>, array_started |-> FALSE]

Run(p) == [buffer |-> p.buffer, array_started |-> p.array_started,
           ok |-> TRUE, results |-> <<>>, cut |-> <<>>]

\* a parse failure that is returned to the caller instead of being skipped
ParseCandidateFailing(r, obj) ==
    IF Deserializes(obj)
    THEN [r EXCEPT !.results = Append(@, ChunkValue(obj)), !.cut = Append(@, obj)]
    ELSE [r EXCEPT !.cut = Append(@, obj), !.ok = FALSE, !.results = <<>>]

\* one candidate handed to serde: pushed when it deserializes, logged and
\* skipped when it does not
ParseCandidate(r, obj) ==
    IF Deserializes(obj)
    THEN [r EXCEPT !.results = Append(@, ChunkValue(obj)), !.cut = Append(@, obj)]
    ELSE [r EXCEPT !.cut = Append(@, obj)]

\* an incomplete object that is thrown away instead of kept
IncompleteDiscarding(r) == [r EXCEPT !.buffer = <<>>]

\* what the loop does when no boundary is found: keep the bytes and wait
Incomplete(r) == r

RECURSIVE extract_loop(_)
extract_loop(r0) ==
    LET r == skip_noise(r0)
    IN  IF Len(r.buffer) = 0 THEN r
        ELSE IF r.buffer[1] = RB
             THEN extract_loop([r EXCEPT !.buffer = Drop(r.buffer, 1)])
        ELSE LET obj_end == find_object_boundary(r.buffer)
             IN  IF obj_end # 0
                 THEN LET n == ParseCandidate(
                                  [r EXCEPT !.buffer = Drop(r.buffer, obj_end)],
                                  SubSeq(r.buffer, 1, obj_end))
                      IN  extract_loop(n)
                 ELSE Incomplete(r)

extract_objects(p) == extract_loop(Run(p))

\* feed: append the slice, extract
feed(p, chunk) == extract_objects([p EXCEPT !.buffer = @ \o chunk])

\* ------------------------------------------------------------------------
\* Upstream byte streams: '[' e1 sep e2 ... ']'
\* ------------------------------------------------------------------------
\* characters of a string literal: structural bytes, an escaped quote, an
\* escaped backslash
StrAtoms == {<<LC>>, <<RC>>, <<LB>>, <<RB>>, <<COMMA>>, <<BS, QT>>, <<BS, BS>>}

RECURSIVE StrContents(_)
StrContents(n) ==
    IF n = 0 THEN {<<>>}
    ELSE LET shorter == StrContents(n - 1)
         IN  shorter \cup {a \o c : a \in StrAtoms, c \in shorter}

Quoted(c) == <<QT>> \o c \o <<QT>>

\* {"<c>":1}
ObjWithString(c) == <<LC>> \o Quoted(c) \o <<COLON, DIGIT, RC>>

\* {"<c>":1} with a non-empty string
RichElements == {ObjWithString(c) : c \in StrContents(MaxStrLen) \ {<<>>}}

\* {}   { }   {"k":[{}]}
PlainElements == { <<LC, RC>>,
                   <<LC, SP, RC>>,
                   <<LC>> \o Quoted(<<LETTER>>) \o <<COLON, LB, LC, RC, RB, RC>> }

\* {k}   {"k":}  : braces balance, not JSON
BalancedInvalid == { <<LC, LETTER, RC>>,
                     <<LC>> \o Quoted(<<LETTER>>) \o <<COLON, RC>> }

\* {"k"   {"k   }  : a brace or a quote is missing, or a brace is stray
UnbalancedInvalid == { <<LC>> \o Quoted(<<LETTER>>),
                       <<LC, QT, LETTER>>,
                       <<RC>> }

BasicElements == PlainElements \cup BalancedInvalid \cup UnbalancedInvalid

Separators == { <<COMMA>>, <<COMMA, SP>> }

\* sequences of at most MaxElems basic elements
BasicLists == UNION { [1..n -> BasicElements] : n \in 0..MaxElems }

\* {}   {"k":[{}]}
CompanionElements == { <<LC, RC>>,
                       <<LC>> \o Quoted(<<LETTER>>) \o <<COLON, LB, LC, RC, RB, RC>> }

\* sequences of at most MaxElems elements: one rich element among plain ones
RichLists ==
    UNION { { [es EXCEPT ![i] = r] : es \in [1..n -> CompanionElements],
                                      i \in 1..n, r \in RichElements }
            : n \in 1..MaxElems }

RECURSIVE Join(_, _)
Join(es, sep) ==
    IF Len(es) = 0 THEN <<>>
    ELSE IF Len(es) = 1 THEN es[1]
    ELSE es[1] \o sep \o Join(Tail(es), sep)

StreamOf(es, sep) == <<LB>> \o Join(es, sep) \o <<RB>>

\* ------------------------------------------------------------------------
\* Upstream chunks (src/src/models/gemini.rs).  An Option is a set with no
\* element (None) or one element (Some).
\* ------------------------------------------------------------------------
None == {}
Some(x) == {x}

Text(t) == [kind |-> "Text", text |-> t]
TextWithThought(t) == [kind |-> "TextWithThought", text |-> t]
FunctionCall(n, a) == [kind |-> "FunctionCall", name |-> n, args |-> a]
FunctionCallWithThought(n, a, sig) ==
    [kind |-> "FunctionCallWithThought", name |-> n, args |-> a,
     thought_signature |-> sig]
InlineData == [kind |-> "InlineData"]
FunctionResponse == [kind |-> "FunctionResponse"]

Content(ps) == [parts |-> ps]
Candidate(content, finish_reason) ==
    [content |-> content, finish_reason |-> finish_reason]
UsageMetadata(prompt, output) ==
    [prompt_token_count |-> prompt, candidates_token_count |-> output]
Chunk(cands, usage) == [candidates |-> cands, usage_metadata |-> usage]

IsFunctionCallPart(part) ==
    part.kind \in {"FunctionCall", "FunctionCallWithThought"}

\* str::trim on the texts of the model
Trim(t) == IF t \in {" ", ""} THEN "" ELSE t

\* serde_json::to_string on the argument values of the model
ArgsSF == [location |-> "SF"]
ArgsNYC == [location |-> "NYC"]
to_string(v) ==
    CASE v = ArgsSF -> "{\"location\":\"SF\"}"
      [] v = ArgsNYC -> "{\"location\":\"NYC\"}"
      [] OTHER -> "null"

\* ------------------------------------------------------------------------
\* SSEEventGenerator (src/src/streaming/sse.rs).  An element of the list that
\* generate_events returns is a String: a sequence of SSE frames.
\* ------------------------------------------------------------------------
NewGenerator == [header_sent |-> FALSE, input_tokens |-> 0, output_tokens |-> 0,
                 content_block_index |-> 0]

saturating_sub(a, b) == IF a >= b THEN a - b ELSE 0

format_message_start(g) ==
    << [type |-> "message_start", input_tokens |-> g.input_tokens,
        output_tokens |-> 1] >>

format_content_block_start(g) ==
    << [type |-> "content_block_start", index |-> 0, block |-> "text"] >>

format_content_block_delta(g, text) ==
    << [type |-> "content_block_delta", index |-> 0, delta |-> "text_delta",
        text |-> text] >>

format_content_block_stop(g) ==
    << [type |-> "content_block_stop", index |-> 0] >>

\* a stop that names the index after the last assigned one
format_tool_use_stop_next_index(g) ==
    << [type |-> "content_block_stop", index |-> g.content_block_index] >>

format_tool_use_stop(g) ==
    << [type |-> "content_block_stop",
        index |-> saturating_sub(g.content_block_index, 1)] >>

format_message_delta(g, stop_reason) ==
    << [type |-> "message_delta", stop_reason |-> stop_reason,
        output_tokens |-> g.output_tokens] >>

format_message_stop(g) == << [type |-> "message_stop"] >>

\* format_tool_use_start: one String holding the start frame and the delta
\* frame; the index is taken before content_block_index is incremented
format_tool_use_start(g, block) ==
    << [type |-> "content_block_start", index |-> g.content_block_index,
        block |-> "tool_use", id |-> block.id, name |-> block.name],
       [type |-> "content_block_delta", index |-> g.content_block_index,
        delta |-> "input_json_delta", partial_json |-> to_string(block.input)] >>

map_finish_reason(gemini_reason) ==
    CASE gemini_reason = "STOP" -> "end_turn"
      [] gemini_reason = "MAX_TOKENS" -> "max_tokens"
      [] gemini_reason = "SAFETY" -> "stop_sequence"
      [] gemini_reason = "RECITATION" -> "stop_sequence"
      [] gemini_reason = "OTHER" -> "end_turn"
      [] OTHER -> "end_turn"

\* transform::tools::has_function_calls: a FunctionCall part in any candidate
has_function_calls(chunk) ==
    \E i \in 1..Len(chunk.candidates) :
        \E content \in chunk.candidates[i].content :
            \E j \in 1..Len(content.parts) :
                content.parts[j].kind = "FunctionCall"

has_function_call_in_chunk(chunk) == has_function_calls(chunk)

determine_stop_reason_with_context(chunk, finish_reason) ==
    IF has_function_call_in_chunk(chunk) THEN "tool_use"
    ELSE IF /\ Len(chunk.candidates) > 0
            /\ \E content \in chunk.candidates[1].content :
                   \E j \in 1..Len(content.parts) :
                       IsFunctionCallPart(content.parts[j])
         THEN "tool_use"
    ELSE map_finish_reason(finish_reason)

\* a predicate that overlooks function calls
chunk_has_text_content(chunk) ==
    /\ Len(chunk.candidates) > 0
    /\ \E content \in chunk.candidates[1].content :
           \E j \in 1..Len(content.parts) :
               /\ content.parts[j].kind \in {"Text", "TextWithThought"}
               /\ Trim(content.parts[j].text) # ""

chunk_has_meaningful_content(chunk) ==
    /\ Len(chunk.candidates) > 0
    /\ \E content \in chunk.candidates[1].content :
           \E j \in 1..Len(content.parts) :
               LET part == content.parts[j]
               IN  \/ /\ part.kind \in {"Text", "TextWithThought"}
                      /\ Trim(part.text) # ""
                   \/ IsFunctionCallPart(part)

\* The generator during one call of generate_events: its fields (g), the
\* correlation entries it has registered, the ids generated so far, and the
\* events pushed so far.
\* usage_metadata: overwrite the counters that are present
update_tokens(g, chunk) ==
    LET g1 == IF \E u \in chunk.usage_metadata : u.prompt_token_count # None
              THEN [g EXCEPT !.input_tokens =
                      CHOOSE n \in UNION {u.prompt_token_count :
                                          u \in chunk.usage_metadata} : TRUE]
              ELSE g
    IN  IF \E u \in chunk.usage_metadata : u.candidates_token_count # None
        THEN [g1 EXCEPT !.output_tokens =
                CHOOSE n \in UNION {u.candidates_token_count :
                                    u \in chunk.usage_metadata} : TRUE]
        ELSE g1

\* headers pushed without recording that they were sent
send_headers_unrecorded(a) ==
    [a EXCEPT !.events = @ \o <<format_message_start(a.g),
                                format_content_block_start(a.g)>>]

\* message_start and the text block's content_block_start; header_sent is set
send_headers(a) ==
    [a EXCEPT !.events = @ \o <<format_message_start(a.g),
                                format_content_block_start(a.g)>>,
              !.g.header_sent = TRUE]

\* transform_function_call: a fresh tool_use id and the ToolUse block
transform_function_call(a, part) ==
    [id |-> a.uuids + 1, name |-> part.name, input |-> part.args]

\* a registration that leaves the thought signature out
register_tool_use_unsigned(store, id, name, sig, args) ==
    store \cup { [id |-> id, function_name |-> name,
                  thought_signature |-> None, args |-> args] }

\* register_tool_use as the generator calls it
register_tool_use(store, id, name, sig, args) ==
    store \cup { [id |-> id, function_name |-> name,
                  thought_signature |-> sig, args |-> args] }

\* a function-call part: register, push start+delta, push stop
emit_tool_use(a, part, sig) ==
    LET block == transform_function_call(a, part)
        started == [a.g EXCEPT !.content_block_index = @ + 1]
    IN  [a EXCEPT
            !.uuids = @ + 1,
            !.store = register_tool_use(@, block.id, part.name, sig, part.args),
            !.g = started,
            !.events = @ \o << format_tool_use_start(a.g, block),
                               format_tool_use_stop(started) >>]

\* a text part handled without the test for blank text
emit_text_untrimmed(a, text) ==
    LET h == IF ~a.g.header_sent THEN send_headers(a) ELSE a
    IN  [h EXCEPT !.events = @ \o <<format_content_block_delta(h.g, text)>>]

\* a text part: nothing for blank text, else headers if unsent and a delta
emit_text(a, text) ==
    IF Trim(text) = "" THEN a
    ELSE LET h == IF ~a.g.header_sent THEN send_headers(a) ELSE a
         IN  [h EXCEPT !.events = @ \o <<format_content_block_delta(h.g, text)>>]

process_part(a, part) ==
    CASE part.kind = "Text" -> emit_text(a, part.text)
      [] part.kind = "TextWithThought" -> emit_text(a, part.text)
      [] part.kind = "FunctionCallWithThought" ->
             emit_tool_use(a, part, Some(part.thought_signature))
      [] part.kind = "FunctionCall" -> emit_tool_use(a, part, None)
      [] OTHER -> a

RECURSIVE process_parts(_, _)
process_parts(a, parts) ==
    IF Len(parts) = 0 THEN a
    ELSE process_parts(process_part(a, parts[1]), Tail(parts))

\* the finish handling of the first candidate
handle_finish(a, chunk, finish_reason) ==
    LET stop_reason == determine_stop_reason_with_context(chunk, finish_reason)
        h == IF ~a.g.header_sent THEN send_headers(a) ELSE a
        s == IF ~has_function_call_in_chunk(chunk)
             THEN [h EXCEPT !.events = @ \o <<format_content_block_stop(h.g)>>]
             ELSE h
    IN  [s EXCEPT !.events = @ \o << format_message_delta(s.g, stop_reason),
                                     format_message_stop(s.g) >>]

generate_events(g, store, uuids, chunk) ==
    LET a0 == [g |-> update_tokens(g, chunk), store |-> store, uuids |-> uuids,
               events |-> <<>>]
        a1 == IF ~a0.g.header_sent /\ chunk_has_meaningful_content(chunk)
              THEN send_headers(a0) ELSE a0
    IN  IF Len(chunk.candidates) = 0 THEN a1
        ELSE LET candidate == chunk.candidates[1]
                 a2 == IF candidate.content = None THEN a1
                       ELSE process_parts(a1,
                              (CHOOSE c \in candidate.content : TRUE).parts)
             IN  IF candidate.finish_reason = None THEN a2
                 ELSE handle_finish(a2, chunk,
                        CHOOSE r \in candidate.finish_reason : TRUE)

\* ------------------------------------------------------------------------
\* The chunks a connection may receive
\* ------------------------------------------------------------------------
ToolName == "get_weather"

CoreParts == { Text("Hi"),
               FunctionCall(ToolName, ArgsSF),
               FunctionCallWithThought(ToolName, ArgsSF, "sig") }

EdgeParts == { Text(" "), Text(""), TextWithThought("Hi"), InlineData,
               FunctionResponse }

PartLists == UNION { [1..n -> CoreParts] : n \in 0..MaxParts }
             \cup { <<p>> : p \in EdgeParts }

FinishReasons == { None, Some("STOP"), Some("MAX_TOKENS") }

\* a single candidate, no usage
PlainChunks ==
    { Chunk(<<Candidate(content, fr)>>, None) :
        content \in {None} \cup { Some(Content(ps)) : ps \in PartLists },
        fr \in FinishReasons }

\* a second candidate that holds a function call
SecondCandidate ==
    Candidate(Some(Content(<<FunctionCall(ToolName, ArgsSF)>>)), None)

TwoCandidateChunks ==
    { Chunk(<<Candidate(content, fr), SecondCandidate>>, None) :
        content \in { None, Some(Content(<<Text("Hi")>>)) },
        fr \in FinishReasons }

PromptTokens == 15
OutputTokens == 10

\* chunks with usage metadata
UsageChunks ==
    { Chunk(<<>>, Some(UsageMetadata(Some(PromptTokens), None))),
      Chunk(<<Candidate(Some(Content(<<Text("Hi")>>)), None)>>,
            Some(UsageMetadata(Some(PromptTokens), Some(OutputTokens)))),
      Chunk(<<Candidate(None, Some("STOP"))>>,
            Some(UsageMetadata(None, Some(OutputTokens)))) }

\* finish reasons beyond STOP and MAX_TOKENS, one of them unknown to the code
OtherReasons == { "SAFETY", "RECITATION", "OTHER", "BLOCKLIST" }

ReasonChunks ==
    { Chunk(<<Candidate(content, Some(r))>>, None) :
        content \in { None, Some(Content(<<Text("Hi")>>)),
                      Some(Content(<<FunctionCallWithThought(ToolName, ArgsSF, "sig")>>)) },
        r \in OtherReasons }

\* a second candidate that holds a function call with a thought signature
ThoughtSecondCandidateChunk ==
    Chunk(<<Candidate(Some(Content(<<Text("Hi")>>)), Some("STOP")),
            Candidate(Some(Content(<<FunctionCallWithThought(ToolName, ArgsSF, "sig")>>)),
                      None)>>, None)

\* two calls of different functions with different arguments
OtherToolName == "get_time"

NamedCallChunks ==
    { Chunk(<<Candidate(Some(Content(<<FunctionCall(OtherToolName, ArgsNYC),
                                       FunctionCallWithThought(ToolName, ArgsSF, "sig")>>)),
                        fr)>>, None) : fr \in { None, Some("STOP") } }

ChunkSet == PlainChunks \cup TwoCandidateChunks \cup UsageChunks
            \cup { Chunk(<<>>, None) }
            \cup ReasonChunks \cup { ThoughtSecondCandidateChunk } \cup NamedCallChunks

NumCalls(chunk) ==
    IF Len(chunk.candidates) = 0 \/ chunk.candidates[1].content = None THEN 0
    ELSE LET ps == (CHOOSE c \in chunk.candidates[1].content : TRUE).parts
         IN  Cardinality({ j \in 1..Len(ps) : IsFunctionCallPart(ps[j]) })

\* ------------------------------------------------------------------------
\* ConversationState (src/src/state.rs).  tool_mappings is the set of the
\* entries of the DashMap, each with its key in the field id.
\* ------------------------------------------------------------------------
MaxOps == 3

\* retention_duration of with_retention, in clock ticks
retention_duration == 1

\* the clock runs until an entry written at 0 is older than the retention
MaxTime == retention_duration + 1

Tasks == { "t1", "t2" }

ToolUseIds == { "toolu_123", "toolu_456" }

\* what a register call is given besides the id
Payloads ==
    { [function_name |-> "first_func", thought_signature |-> None, args |-> ArgsSF],
      [function_name |-> "second_func", thought_signature |-> Some("sig"),
       args |-> ArgsNYC] }

NewConversationState == [tool_mappings |-> {}, request_counter |-> 0]

\* DashMap::get: the entry of a key, as an Option
get(m, id) == { e \in m : e.id = id }

\* an insert that leaves the entry already stored under the key in place
insert_beside(m, e) == m \cup {e}

\* DashMap::insert: the entry replaces the one stored under its key
insert(m, e) == { x \in m : x.id # e.id } \cup {e}

\* DashMap::remove
remove(m, id) == { x \in m : x.id # id }

\* the insert of register_tool_use_with_context; request_index comes from
\* next_request_index, timestamp from Instant::now()
register_tool_use_with_context(m, tool_use_id, function_name, thought_signature, args, conversation_id, request_index, timestamp) ==
    insert(m, [id |-> tool_use_id,
               function_name |-> function_name,
               thought_signature |-> thought_signature,
               args |-> args,
               timestamp |-> timestamp,
               request_index |-> request_index,
               conversation_id |-> IF conversation_id = None THEN "default"
                                   ELSE CHOOSE c \in conversation_id : TRUE,
               original_id |-> tool_use_id])

\* a lookup that answers with the id instead of the function name
get_function_name_as_id(m, tool_use_id) ==
    { e.original_id : e \in get(m, tool_use_id) }

get_function_name(m, tool_use_id) ==
    { e.function_name : e \in get(m, tool_use_id) }

get_metadata(m, tool_use_id) == get(m, tool_use_id)

len(m) == Cardinality(m)

verify_round_trip(m, tool_use_id) ==
    \E e \in get(m, tool_use_id) : e.original_id = tool_use_id

\* Instant::duration_since: zero when the timestamp is later
duration_since(now, timestamp) == saturating_sub(now, timestamp)

\* a filter that also takes the entries whose age equals the retention
is_expired_inclusive(e, now) ==
    duration_since(now, e.timestamp) >= retention_duration

\* the filter of cleanup_old_entries
is_expired(e, now) == duration_since(now, e.timestamp) > retention_duration

\* ------------------------------------------------------------------------
\* Client requests (src/src/models/claude.rs), validate_claude_request
\* (src/src/transform/validation.rs) and the request transformer
\* (src/src/transform/request.rs).  A Result is a record with ok TRUE and a
\* value, or ok FALSE and the ProxyError variant.
\* ------------------------------------------------------------------------
MaxMsgs == 5
MaxBlocks == 2

ContentText(text) == [kind |-> "Text", text |-> text]
ContentBlocks(blocks) == [kind |-> "Blocks", blocks |-> blocks]

BlockText(text) == [type |-> "text", text |-> text]
BlockToolUse(id, name) == [type |-> "tool_use", id |-> id, name |-> name]
BlockToolResult(tool_use_id, content, is_error) ==
    [type |-> "tool_result", tool_use_id |-> tool_use_id, content |-> content,
     is_error |-> is_error]

ClaudeMessage(role, content) == [role |-> role, content |-> content]

\* temperature and top_p are in tenths
ClaudeRequest(messages, max_tokens, temperature, top_p, top_k) ==
    [messages |-> messages, max_tokens |-> max_tokens,
     temperature |-> temperature, top_p |-> top_p, top_k |-> top_k]

FunctionResponsePart(name, response) ==
    [kind |-> "FunctionResponse", name |-> name, response |-> response]

Ok(value) == [ok |-> TRUE, value |-> value]
Err(error) == [ok |-> FALSE, error |-> error]

\* a check that lets any first role pass
first_role_is_any(req) == TRUE

\* the role check of the first message
first_role_is_user(req) == req.messages[1].role = "user"

validate_claude_request(req) ==
    IF Len(req.messages) = 0 THEN Err("InvalidClaudeRequest")
    ELSE IF ~first_role_is_user(req) THEN Err("InvalidClaudeRequest")
    ELSE IF \E i \in 2..Len(req.messages) :
                /\ req.messages[i - 1].role = "assistant"
                /\ req.messages[i].role = "assistant"
         THEN Err("InvalidClaudeRequest")
    ELSE IF \E n \in req.max_tokens : n = 0 \/ n > 1000000
         THEN Err("InvalidClaudeRequest")
    ELSE IF \E x \in req.temperature : ~(0 <= x /\ x <= 20)
         THEN Err("InvalidClaudeRequest")
    ELSE IF \E x \in req.top_p : ~(0 <= x /\ x <= 10)
         THEN Err("InvalidClaudeRequest")
    ELSE IF \E k \in req.top_k : k = 0 THEN Err("InvalidClaudeRequest")
    ELSE Ok("unit")

\* a lookup that never consults the store
function_name_unresolved(state, tool_use_id) == tool_use_id

\* the name of a tool result: the registered name, else the tool_use_id
function_name_for(state, tool_use_id) ==
    IF state = None THEN tool_use_id
    ELSE LET found == get_function_name(CHOOSE m \in state : TRUE, tool_use_id)
         IN  IF found = None THEN tool_use_id ELSE CHOOSE n \in found : TRUE

\* extract_parts over the blocks of a message
RECURSIVE extract_blocks(_, _, _)
extract_blocks(blocks, state, acc) ==
    IF Len(blocks) = 0 THEN acc
    ELSE LET block == blocks[1]
             next ==
               CASE block.type = "text" ->
                      [acc EXCEPT !.parts = Append(@, Text(block.text))]
                 [] block.type = "tool_use" -> acc
                 [] block.type = "tool_result" ->
                      LET function_name == function_name_for(state, block.tool_use_id)
                      IN  [parts |-> Append(acc.parts,
                              FunctionResponsePart(function_name,
                                [result |-> block.content,
                                 error |-> IF block.is_error = None THEN FALSE
                                           ELSE CHOOSE b \in block.is_error : TRUE])),
                           has_non_todo_tool_results |->
                              acc.has_non_todo_tool_results
                                \/ function_name # "TodoWrite"]
         IN  extract_blocks(Tail(blocks), state, next)

extract_parts(content, state) ==
    IF content.kind = "Text"
    THEN [parts |-> <<Text(content.text)>>, has_non_todo_tool_results |-> FALSE]
    ELSE extract_blocks(content.blocks, state,
                        [parts |-> <<>>, has_non_todo_tool_results |-> FALSE])

\* position / rposition of the user messages, 0 for None
first_user_idx(messages) ==
    IF \E i \in 1..Len(messages) : messages[i].role = "user"
    THEN CHOOSE i \in 1..Len(messages) :
           /\ messages[i].role = "user"
           /\ \A j \in 1..(i - 1) : messages[j].role # "user"
    ELSE 0

last_user_idx(messages) ==
    IF \E i \in 1..Len(messages) : messages[i].role = "user"
    THEN CHOOSE i \in 1..Len(messages) :
           /\ messages[i].role = "user"
           /\ \A j \in (i + 1)..Len(messages) : messages[j].role # "user"
    ELSE 0

\* a filter that drops every user message between the first and the last,
\* whatever the length of the conversation
is_intermediate_user_any_length(messages, idx) ==
    /\ messages[idx].role = "user"
    /\ idx # first_user_idx(messages)
    /\ idx # last_user_idx(messages)

\* the test that skips an intermediate user message
is_intermediate_user(messages, idx) ==
    /\ messages[idx].role = "user"
    /\ Len(messages) > 3
    /\ idx # first_user_idx(messages)
    /\ idx # last_user_idx(messages)

TodoDirective == "<system-reminder>TodoWrite</system-reminder>"

\* a test that takes every list of parts for non-empty
is_never_empty(parts) == FALSE

\* parts.is_empty()
is_empty(parts) == Len(parts) = 0

\* the loop over the messages from idx on; acc is a Result of the contents
\* pushed and the flag
RECURSIVE convert_messages(_, _, _, _)
convert_messages(messages, state, idx, acc) ==
    IF idx > Len(messages) THEN Ok(acc)
    ELSE LET msg == messages[idx]
         IN  IF is_intermediate_user(messages, idx)
             THEN convert_messages(messages, state, idx + 1, acc)
             ELSE IF msg.role \notin {"assistant", "user"}
                  THEN Err("TransformationError")
             ELSE LET role == IF msg.role = "assistant" THEN "model" ELSE "user"
                      ex == extract_parts(msg.content, state)
                      flag == acc.has_non_todo_tool_results
                                \/ ex.has_non_todo_tool_results
                  IN  IF is_empty(ex.parts)
                      THEN convert_messages(messages, state, idx + 1,
                             [acc EXCEPT !.has_non_todo_tool_results = flag])
                      ELSE convert_messages(messages, state, idx + 1,
                             [contents |-> Append(acc.contents,
                                                  [role |-> role, parts |-> ex.parts]),
                              has_non_todo_tool_results |-> flag])

\* the directive appended to every user entry of contents
inject_todo_everywhere(contents) ==
    [k \in 1..Len(contents) |->
        IF contents[k].role = "user"
        THEN [contents[k] EXCEPT !.parts = Append(@, Text(TodoDirective))]
        ELSE contents[k]]

\* the directive appended to the last user entry of contents
inject_todo(contents) ==
    IF \E i \in 1..Len(contents) : contents[i].role = "user"
    THEN LET i == CHOOSE k \in 1..Len(contents) :
                    /\ contents[k].role = "user"
                    /\ \A j \in (k + 1)..Len(contents) : contents[j].role # "user"
         IN  [contents EXCEPT ![i].parts = Append(@, Text(TodoDirective))]
    ELSE contents

transform_request_with_state(claude_req, state, auto_todo_prompt) ==
    LET r == convert_messages(claude_req.messages, state, 1,
                              [contents |-> <<>>,
                               has_non_todo_tool_results |-> FALSE])
    IN  IF ~r.ok THEN r
        ELSE Ok([contents |->
                    IF auto_todo_prompt /\ r.value.has_non_todo_tool_results
                    THEN inject_todo(r.value.contents)
                    ELSE r.value.contents,
                 generation_config |->
                    [max_output_tokens |-> claude_req.max_tokens,
                     temperature |-> claude_req.temperature,
                     top_p |-> claude_req.top_p,
                     top_k |-> claude_req.top_k]])

\* ------------------------------------------------------------------------
\* The requests a client may send.  The text of message i is the numeral i,
\* so that an entry of the output names the message it comes from.
\* ------------------------------------------------------------------------
MessagesAt(i) ==
    { ClaudeMessage("user", ContentText(ToString(i))),
      ClaudeMessage("user",
        ContentBlocks(<<BlockToolResult("toolu_123", ToString(i), None)>>)),
      ClaudeMessage("assistant", ContentText(ToString(i))),
      ClaudeMessage("assistant",
        ContentBlocks(<<BlockToolUse("toolu_123", ToolName)>>)),
      ClaudeMessage("system", ContentText(ToString(i))) }

RECURSIVE Conversations(_)
Conversations(n) ==
    IF n = 0 THEN { <<>> }
    ELSE { Append(c, m) : c \in Conversations(n - 1), m \in MessagesAt(n) }

ConversationRequests ==
    { ClaudeRequest(ms, Some(100), None, None, None) :
        ms \in UNION { Conversations(n) : n \in 0..MaxMsgs } }

BlockChoices ==
    { BlockText("1"),
      BlockToolUse("toolu_123", ToolName),
      BlockToolResult("toolu_123", "1", None),
      BlockToolResult("toolu_123", "1", Some(TRUE)),
      BlockToolResult("toolu_456", "1", Some(FALSE)) }

\* one user message of blocks
ToolResultRequests ==
    { ClaudeRequest(<<ClaudeMessage("user", ContentBlocks(bs))>>,
                    Some(100), None, None, None) :
        bs \in UNION { [1..n -> BlockChoices] : n \in 0..MaxBlocks } }

\* one user message, parameters in and out of range
ParamRequests ==
    { ClaudeRequest(<<ClaudeMessage("user", ContentText("1"))>>, mt, te, tp, tk) :
        mt \in { None, Some(0), Some(1), Some(1000000), Some(1000001) },
        te \in { None, Some(-1), Some(0), Some(20), Some(21) },
        tp \in { None, Some(-1), Some(10), Some(11) },
        tk \in { None, Some(0), Some(1) } }

\* messages of either role whose blocks are a tool use or a tool result
TodoMessagesAt(i) ==
    { ClaudeMessage(role, content) :
        role \in {"user", "assistant"},
        content \in { ContentText(ToString(i)),
                      ContentBlocks(<<BlockToolUse("toolu_123", ToolName)>>),
                      ContentBlocks(<<BlockToolResult("toolu_123", ToString(i), None)>>) } }

\* one or two such messages
TodoRequests ==
    { ClaudeRequest(ms, Some(100), None, None, None) :
        ms \in { <<m>> : m \in TodoMessagesAt(1) }
               \cup { <<m, n>> : m \in TodoMessagesAt(1), n \in TodoMessagesAt(2) } }

\* ToolMetrics::default()
NewToolMetrics ==
    [total_calls |-> 0, successful_transformations |-> 0,
     failed_transformations |-> 0, tool_results_processed |-> 0,
     state_lookup_failures |-> 0, total_transform_time_us |-> 0]

\* ------------------------------------------------------------------------
\* ToolMetrics: six AtomicU64 counters; every access is one atomic step
\* ------------------------------------------------------------------------
\* number of calls on the ToolMetrics that are started
MaxRecords == 3

\* duration.as_micros() of a conversion
Durations == {1, 2}

fetch_add(m, field, n) == [m EXCEPT ![field] = @ + n]

atomic_store(m, field, v) == [m EXCEPT ![field] = v]

load(m, field) == m[field]

\* the loads of snapshot, in the order of the struct expression: five
\* fields, then the two loads of avg_transform_time_us, then the two loads of
\* success_rate
SnapshotLoads ==
    << "total_calls", "successful_transformations", "failed_transformations",
       "tool_results_processed", "state_lookup_failures",
       "total_transform_time_us", "successful_transformations",
       "total_calls", "successful_transformations" >>

\* the stores of reset, in order
ResetStores ==
    << "total_calls", "successful_transformations", "failed_transformations",
       "tool_results_processed", "state_lookup_failures",
       "total_transform_time_us" >>

avg_transform_time_us(total, count) == IF count > 0 THEN total \div count ELSE 0

\* the percentage, as the fraction the f64 division is given
success_rate(total, successful) ==
    IF total > 0 THEN [num |-> successful * 100, den |-> total]
    ELSE [num |-> 0, den |-> 1]

\* the MetricsSnapshot built from the values loaded
MetricsSnapshot(loaded) ==
    [total_calls |-> loaded[1],
     successful_transformations |-> loaded[2],
     failed_transformations |-> loaded[3],
     tool_results_processed |-> loaded[4],
     state_lookup_failures |-> loaded[5],
     avg_transform_time_us |-> avg_transform_time_us(loaded[6], loaded[7]),
     success_rate |-> success_rate(loaded[8], loaded[9])]

StoreWith(name) ==
    register_tool_use_with_context(NewConversationState.tool_mappings,
                                   "toolu_123", name, None, ArgsSF, None, 0, 0)

\* no store supplied, an empty store, a store that knows toolu_123
StoreChoices ==
    { None, Some(NewConversationState.tool_mappings),
      Some(StoreWith(ToolName)), Some(StoreWith("TodoWrite")) }

\* ------------------------------------------------------------------------
\* ToolSchemaCache (src/src/cache.rs).  The ArcSwap holds a pointer to an
\* immutable HashMap: ptr names the allocation, map is the set of the
\* entries of the HashMap, each a GeminiFunctionDeclaration keyed by its name.
\* ------------------------------------------------------------------------
MaxCalls == 3

ToolNames == {"tool_1", "tool_2"}

ClaudeTool(name, description, input_schema) ==
    [name |-> name, description |-> description, input_schema |-> input_schema]

\* the tools a request may carry
ClaudeTools ==
    { ClaudeTool(n, d, sch) :
        n \in ToolNames, d \in {"Test tool", "Other tool"},
        sch \in {"object", "string"} }

GeminiFunctionDeclaration(name, description, parameters) ==
    [name |-> name, description |-> description, parameters |-> parameters]

NewToolSchemaCache == [ptr |-> 0, map |-> {}]

\* HashMap::get
cache_get(m, name) == { e \in m : e.name = name }

\* HashMap::insert
cache_insert(m, e) == { x \in m : x.name # e.name } \cup {e}

\* the conversion of the slow path
transformed(tool) ==
    GeminiFunctionDeclaration(tool.name, tool.description, tool.input_schema)

\* a comparison that takes any two pointers for the same
ptr_eq_always(a, b) == TRUE

\* ArcSwap::compare_and_swap compares the pointers
ptr_eq(a, b) == a.ptr = b.ptr

\* ------------------------------------------------------------------------
\* JsonSchema and its Serialize (src/src/models/claude.rs).  A HashMap with
\* String keys is a function on its keys; a JSON object is a function on its
\* keys, holding the entries that were written and no other.
\* ------------------------------------------------------------------------
MaxDepth == 2

\* a map without entries
NoEntries == [k \in {} |-> ""]

\* JsonSchema::default()
DefaultSchema ==
    [schema_type |-> "", description |-> None, properties |-> None,
     required |-> None, enum_values |-> None, items |-> None,
     minimum |-> None, maximum |-> None, pattern |-> None,
     additional |-> NoEntries]

\* the keys the serializer writes
SupportedKeys ==
    {"type", "description", "properties", "required", "enum", "items",
     "minimum", "maximum", "pattern"}

\* the catch-all of a schema: the fields of the input that are none of the
\* named ones
Additionals ==
    { NoEntries,
      ("additionalProperties" :> "false")
      @@ ("$schema" :> "http://json-schema.org/draft-07/schema#")
      @@ ("$id" :> "some-id") }

\* schemas without properties and items
LeafSchemas ==
    { [DefaultSchema EXCEPT !.schema_type = "string", !.additional = a]
        : a \in Additionals }
    \cup
    { [DefaultSchema EXCEPT !.schema_type = "number",
                            !.description = Some("a value"),
                            !.required = Some(<<"param">>),
                            !.enum_values = Some(<<"1", "2">>),
                            !.minimum = Some(0), !.maximum = Some(9),
                            !.pattern = Some("^[0-9]$"),
                            !.additional = a]
        : a \in Additionals }

\* schemas nested to depth d at most
RECURSIVE Schemas(_)
Schemas(d) ==
    IF d = 0 THEN LeafSchemas
    ELSE LET inner == Schemas(d - 1)
         IN  LeafSchemas
             \cup { [DefaultSchema EXCEPT !.schema_type = "object",
                                          !.properties = Some([param |-> x]),
                                          !.additional = a]
                      : x \in inner, a \in Additionals }
             \cup { [DefaultSchema EXCEPT !.schema_type = "array",
                                          !.items = Some(x),
                                          !.additional = a]
                      : x \in inner, a \in Additionals }

\* the schemas that differ from schema in the catch-all fields only, at any
\* nesting level
RECURSIVE SameButAdditional(_)
SameButAdditional(schema) ==
    LET props == IF schema.properties = None THEN {None}
                 ELSE LET f == CHOOSE x \in schema.properties : TRUE
                          each == [k \in DOMAIN f |-> SameButAdditional(f[k])]
                      IN  { Some(h) :
                              h \in { g \in [DOMAIN f -> UNION {each[k] : k \in DOMAIN f}]
                                        : \A k \in DOMAIN f : g[k] \in each[k] } }
        its   == IF schema.items = None THEN {None}
                 ELSE { Some(x) :
                          x \in SameButAdditional(CHOOSE i \in schema.items : TRUE) }
    IN  { [schema EXCEPT !.additional = a, !.properties = p, !.items = i]
            : a \in Additionals, p \in props, i \in its }

\* one entry of the map being serialized, written if the field is Some
Entry(key, field) ==
    IF field = None THEN NoEntries ELSE key :> (CHOOSE v \in field : TRUE)

\* a serializer that flattens the catch-all into the map
additional_flattened(additional) == additional

\* the catch-all is skip_serializing, and the Serialize impl writes no entry
\* for it
additional_entries(additional) == NoEntries

\* impl Serialize for JsonSchema; the values of properties and items are
\* serialized by the same impl
RECURSIVE serialize(_)
serialize(schema) ==
    ("type" :> schema.schema_type)
    @@ Entry("description", schema.description)
    @@ Entry("properties",
             IF schema.properties = None THEN None
             ELSE LET props == CHOOSE f \in schema.properties : TRUE
                  IN  Some([k \in DOMAIN props |-> serialize(props[k])]))
    @@ Entry("required", schema.required)
    @@ Entry("enum", schema.enum_values)
    @@ Entry("items",
             IF schema.items = None THEN None
             ELSE Some(serialize(CHOOSE i \in schema.items : TRUE)))
    @@ Entry("minimum", schema.minimum)
    @@ Entry("maximum", schema.maximum)
    @@ Entry("pattern", schema.pattern)
    @@ additional_entries(schema.additional)

\* ------------------------------------------------------------------------
\* State
\* ------------------------------------------------------------------------
VARIABLES
    \* one upstream response and its StreamingJsonParser
    elems,         \* the array elements the upstream sends
    stream,        \* the bytes of the upstream response
    fed,           \* number of bytes of stream passed to feed so far
    parser,        \* StreamingJsonParser: buffer, array_started
    feed_ok,       \* the last feed returned Ok
    emitted,       \* the chunks returned by the feeds so far, concatenated
    candidates,    \* the candidate objects split off the buffer so far
    partial_seen,  \* some feed returned leaving bytes of an object buffered
    \* one connection and its SSEEventGenerator
    gen,               \* header_sent, input_tokens, output_tokens, content_block_index
    store,             \* correlation entries registered by the generator
    uuids,             \* number of tool_use ids generated
    events,            \* the list returned by the last generate_events
    chunk_in,          \* the chunk the last generate_events was called with
    calls,             \* number of generate_events calls so far
    n_message_start,   \* message_start frames sent on the connection
    n_message_stop,    \* message_stop frames sent on the connection
    first_frame,       \* type of the first frame sent on the connection
    last_block_index,  \* index of the last content-block frame sent, -1 if none
    \* one ConversationState shared by the tasks
    tool_mappings,     \* the entries of the map
    request_counter,   \* the AtomicUsize
    now,               \* the clock Instant::now() reads
    task,              \* per task: the call it is in and the call's locals
    result,            \* per task: what its last completed call returned
    ops,               \* number of calls started
    last_insert,       \* per id: the fields of the last insert applied to the map
    undisturbed,       \* per id: no clear and no cleanup removal since that insert
    \* one client request
    claude_req,        \* the ClaudeRequest
    req_state,         \* the ConversationState given to the transformer, if any
    auto_todo_prompt,  \* the flag given to the transformer
    validation,        \* what validate_claude_request returned
    gemini_req,        \* what transform_request_with_state returned
    tool_metrics,      \* the counters of TOOL_METRICS
    \* one ToolSchemaCache shared by the tasks
    tool_cache,        \* the ArcSwap: the pointer and the HashMap it points to
    allocs,            \* number of HashMaps allocated so far
    cache_task,        \* per task: the call it is in and the call's locals
    cache_result,      \* per task: what its last completed call returned
    cache_calls,       \* number of calls started
    published,         \* names whose insert was published since the last clear
    \* two tool schemas on their way upstream
    schema_a,          \* a JsonSchema
    schema_b,          \* a JsonSchema that differs from it in catch-all fields only
    json_a,            \* the JSON serialized for schema_a, if it has been
    json_b,            \* the JSON serialized for schema_b, if it has been
    \* the tasks recording on and reading TOOL_METRICS
    metrics_task,      \* per task: the call it is in and the call's locals
    metrics_result,    \* per task: what its last completed call returned
    metrics_calls,     \* number of calls started
    \* one response stream passing through transform_to_sse
    outgoing_events,   \* the BytesMut the closure owns
    yielded,           \* the items the returned stream has yielded so far
    returned,          \* per generate_events call: the chunk and the events returned
    \* one request passing through handle_messages; claude_req is the request,
    \* tool_mappings the map of GLOBAL_STATE
    handler,               \* the step the handler is at, and what it has done
    tools,                 \* claude_req.tools
    needs_transformation   \* state.provider.needs_transformation()

parser_vars == <<elems, stream, fed, parser, feed_ok, emitted, candidates,
                 partial_seen>>

sse_vars == <<gen, store, uuids, events, chunk_in, calls, n_message_start,
              n_message_stop, first_frame, last_block_index>>

state_vars == <<tool_mappings, request_counter, now, task, result, ops,
                last_insert, undisturbed>>

request_vars == <<claude_req, req_state, auto_todo_prompt, validation, gemini_req,
                  tool_metrics>>

cache_vars == <<tool_cache, allocs, cache_task, cache_result, cache_calls,
                published>>

schema_vars == <<schema_a, schema_b, json_a, json_b>>

metrics_vars == <<metrics_task, metrics_result, metrics_calls>>

stream_vars == <<outgoing_events, yielded, returned>>

handler_vars == <<handler, tools, needs_transformation>>

later_vars == <<metrics_vars, stream_vars, handler_vars>>

vars == <<parser_vars, sse_vars, state_vars, request_vars, cache_vars,
          schema_vars, later_vars>>

\* the call has not been made
NotCalled == Err("not called")

\* no request has arrived
IdleRequest ==
    /\ claude_req = ClaudeRequest(<<>>, None, None, None, None)
    /\ req_state = None
    /\ auto_todo_prompt = FALSE
    /\ validation = NotCalled
    /\ gemini_req = NotCalled
    /\ tool_metrics = NewToolMetrics

\* a task that is in no call
IdleTask == [pc |-> "idle", id |-> "", payload |-> None, request_index |-> 0,
             cl_now |-> 0, todo |-> {}, to_remove |-> <<>>, count |-> 0,
             start_map |-> {}, register_ran |-> FALSE, mutation_ran |-> FALSE,
             removed |-> 0]

NoResult == [op |-> "none"]

\* a state that has been constructed and used by no task
IdleState ==
    /\ tool_mappings = NewConversationState.tool_mappings
    /\ request_counter = NewConversationState.request_counter
    /\ now = 0
    /\ task = [t \in Tasks |-> IdleTask]
    /\ result = [t \in Tasks |-> NoResult]
    /\ ops = 0
    /\ last_insert = [id \in ToolUseIds |-> None]
    /\ undisturbed = [id \in ToolUseIds |-> FALSE]

\* a task that is in no call of the cache
IdleCacheTask == [pc |-> "idle", tool |-> None, cur |-> NewToolSchemaCache,
                  retried |-> FALSE]

\* a cache that has been constructed and used by no task
IdleCache ==
    /\ tool_cache = NewToolSchemaCache
    /\ allocs = 1
    /\ cache_task = [t \in Tasks |-> IdleCacheTask]
    /\ cache_result = [t \in Tasks |-> NoResult]
    /\ cache_calls = 0
    /\ published = {}

\* no schema has arrived
IdleSchema ==
    /\ schema_a = DefaultSchema
    /\ schema_b = DefaultSchema
    /\ json_a = None
    /\ json_b = None

\* a task that is in no call of the metrics
IdleMetricsTask == [pc |-> "idle", duration |-> 0, loaded |-> <<>>, stored |-> 0]

\* no task has used the metrics
IdleMetrics ==
    /\ metrics_task = [t \in Tasks |-> IdleMetricsTask]
    /\ metrics_result = [t \in Tasks |-> NoResult]
    /\ metrics_calls = 0

\* transform_to_sse has been called and its stream not polled
IdleStream ==
    /\ outgoing_events = <<>>
    /\ yielded = <<>>
    /\ returned = <<>>

\* a handler that has been entered and has run no step
NewHandler ==
    [pc |-> "validate", status |-> None, steps |-> <<>>, upstream_requests |-> 0,
     validation |-> None, tools_validation |-> None, transformation |-> None,
     upstream |-> None, store_before |-> {}]

\* no request has reached the handler
IdleHandler ==
    /\ handler = NewHandler
    /\ tools = None
    /\ needs_transformation = TRUE

IdleLater == IdleMetrics /\ IdleStream /\ IdleHandler

NoFrame == "none"

\* a parser that has been constructed and fed nothing
IdleParser ==
    /\ fed = 0
    /\ parser = NewParser
    /\ feed_ok = TRUE
    /\ emitted = <<>>
    /\ candidates = <<>>
    /\ partial_seen = FALSE

\* a generator that has been constructed and given nothing
IdleGenerator ==
    /\ gen = NewGenerator
    /\ store = {}
    /\ uuids = 0
    /\ events = <<>>
    /\ chunk_in = Chunk(<<>>, None)
    /\ calls = 0
    /\ n_message_start = 0
    /\ n_message_stop = 0
    /\ first_frame = NoFrame
    /\ last_block_index = -1

InitParser ==
    /\ \/ /\ elems \in BasicLists
          /\ \E sep \in Separators : stream = StreamOf(elems, sep)
       \/ /\ elems \in RichLists
          /\ stream = StreamOf(elems, <<COMMA>>)
    /\ IdleParser
    /\ IdleGenerator
    /\ IdleState
    /\ IdleRequest
    /\ IdleCache
    /\ IdleLater
    /\ IdleSchema

\* the next n bytes of the response arrive and are fed to the parser
Feed(n) ==
    /\ fed + n <= Len(stream)
    /\ \E r \in {feed(parser, SubSeq(stream, fed + 1, fed + n))} :
           /\ parser' = [buffer |-> r.buffer, array_started |-> r.array_started]
           /\ feed_ok' = r.ok
           /\ emitted' = IF r.ok THEN emitted \o r.results ELSE emitted
           /\ candidates' = candidates \o r.cut
           /\ partial_seen' = (partial_seen \/ Len(r.buffer) > 0)
    /\ fed' = fed + n
    /\ UNCHANGED <<elems, stream>>
    /\ UNCHANGED <<sse_vars, state_vars, request_vars, cache_vars, schema_vars, later_vars>>

NextParser == \E n \in 1..Len(stream) : Feed(n)

SpecParser == InitParser /\ [][NextParser]_vars

\* the frames of a list of events, in wire order
RECURSIVE Frames(_)
Frames(evs) == IF Len(evs) = 0 THEN <<>> ELSE evs[1] \o Frames(Tail(evs))

IsBlockFrame(f) ==
    f.type \in {"content_block_start", "content_block_delta", "content_block_stop"}

CountType(fs, t) == Cardinality({ i \in 1..Len(fs) : fs[i].type = t })

\* the index of the last content-block frame of fs, dflt if there is none
LastBlockIndex(fs, dflt) ==
    LET is == { i \in 1..Len(fs) : IsBlockFrame(fs[i]) }
    IN  IF is = {} THEN dflt
        ELSE fs[CHOOSE i \in is : \A j \in is : j <= i].index

InitSSE ==
    /\ elems = <<>>
    /\ stream = StreamOf(elems, <<COMMA>>)
    /\ IdleParser
    /\ IdleGenerator
    /\ IdleState
    /\ IdleRequest
    /\ IdleCache
    /\ IdleLater
    /\ IdleSchema

\* the next parsed chunk of the connection is passed to generate_events
GenerateEvents(chunk) ==
    /\ calls < MaxChunks
    /\ gen.content_block_index + NumCalls(chunk) <= MaxTools
    /\ \E r \in {generate_events(gen, store, uuids, chunk)} :
         \E fs \in {Frames(r.events)} :
           /\ gen' = r.g
           /\ store' = r.store
           /\ uuids' = r.uuids
           /\ events' = r.events
           /\ chunk_in' = chunk
           /\ n_message_start' = n_message_start + CountType(fs, "message_start")
           /\ n_message_stop' = n_message_stop + CountType(fs, "message_stop")
           /\ first_frame' = IF first_frame = NoFrame /\ Len(fs) > 0
                             THEN fs[1].type ELSE first_frame
           /\ last_block_index' = LastBlockIndex(fs, last_block_index)
    /\ calls' = calls + 1
    /\ UNCHANGED <<parser_vars, state_vars, request_vars, cache_vars, schema_vars, later_vars>>

NextSSE == \E chunk \in ChunkSet : GenerateEvents(chunk)

SpecSSE == InitSSE /\ [][NextSSE]_vars

\* ------------------------------------------------------------------------
\* Tasks calling one ConversationState.  A call on the DashMap (insert, get,
\* remove, clear, one entry of an iteration) is one step; so is an access of
\* the AtomicUsize.
\* ------------------------------------------------------------------------
other_vars == <<parser_vars, sse_vars, request_vars, cache_vars, schema_vars, later_vars>>

InCleanup(tk) == tk.pc \in {"cleanup_scan", "cleanup_remove", "cleanup_return"}

\* the cleanups of other tasks that are under way see a register run
MarkRegister(tks, t) ==
    [u \in Tasks |-> IF u # t /\ InCleanup(tks[u])
                     THEN [tks[u] EXCEPT !.register_ran = TRUE] ELSE tks[u]]

\* the cleanups of other tasks that are under way see a clear or a cleanup run
MarkMutation(tks, t) ==
    [u \in Tasks |-> IF u # t /\ InCleanup(tks[u])
                     THEN [tks[u] EXCEPT !.mutation_ran = TRUE] ELSE tks[u]]

InitState ==
    /\ elems = <<>>
    /\ stream = StreamOf(elems, <<COMMA>>)
    /\ IdleParser
    /\ IdleGenerator
    /\ IdleState
    /\ IdleRequest
    /\ IdleCache
    /\ IdleLater
    /\ IdleSchema

\* register_tool_use_with_context up to next_request_index
RegisterStart(t, id, p) ==
    /\ task[t].pc = "idle" /\ ops < MaxOps
    /\ task' = MarkRegister(
                   [task EXCEPT ![t] = [IdleTask EXCEPT !.pc = "register",
                                                        !.id = id,
                                                        !.payload = Some(p),
                                                        !.request_index = request_counter]],
                   t)
    /\ request_counter' = request_counter + 1
    /\ ops' = ops + 1
    /\ UNCHANGED <<other_vars, tool_mappings, now, result, last_insert,
                   undisturbed>>

\* the insert of register_tool_use_with_context, and its return
RegisterInsert(t) ==
    /\ task[t].pc = "register"
    /\ LET id == task[t].id
           p == CHOOSE x \in task[t].payload : TRUE
       IN  /\ tool_mappings' = register_tool_use_with_context(
                                   tool_mappings, id, p.function_name,
                                   p.thought_signature, p.args, None,
                                   task[t].request_index, now)
           /\ last_insert' = [last_insert EXCEPT ![id] =
                                 Some([function_name |-> p.function_name,
                                       thought_signature |-> p.thought_signature,
                                       args |-> p.args,
                                       request_index |-> task[t].request_index,
                                       original_id |-> id])]
           /\ undisturbed' = [undisturbed EXCEPT ![id] = TRUE]
           /\ result' = [result EXCEPT ![t] = [op |-> "register", id |-> id]]
    /\ task' = MarkRegister([task EXCEPT ![t] = IdleTask], t)
    /\ UNCHANGED <<other_vars, request_counter, now, ops>>

GetFunctionName(t, id) ==
    /\ task[t].pc = "idle" /\ ops < MaxOps
    /\ result' = [result EXCEPT ![t] =
                     [op |-> "get_function_name", id |-> id,
                      name |-> get_function_name(tool_mappings, id)]]
    /\ ops' = ops + 1
    /\ UNCHANGED <<other_vars, tool_mappings, request_counter, now, task,
                   last_insert, undisturbed>>

GetMetadata(t, id) ==
    /\ task[t].pc = "idle" /\ ops < MaxOps
    /\ result' = [result EXCEPT ![t] =
                     [op |-> "get_metadata", id |-> id,
                      metadata |-> get_metadata(tool_mappings, id)]]
    /\ ops' = ops + 1
    /\ UNCHANGED <<other_vars, tool_mappings, request_counter, now, task,
                   last_insert, undisturbed>>

VerifyRoundTrip(t, id) ==
    /\ task[t].pc = "idle" /\ ops < MaxOps
    /\ result' = [result EXCEPT ![t] =
                     [op |-> "verify_round_trip", id |-> id,
                      ok |-> verify_round_trip(tool_mappings, id)]]
    /\ ops' = ops + 1
    /\ UNCHANGED <<other_vars, tool_mappings, request_counter, now, task,
                   last_insert, undisturbed>>

LenCall(t) ==
    /\ task[t].pc = "idle" /\ ops < MaxOps
    /\ result' = [result EXCEPT ![t] = [op |-> "len", n |-> len(tool_mappings)]]
    /\ ops' = ops + 1
    /\ UNCHANGED <<other_vars, tool_mappings, request_counter, now, task,
                   last_insert, undisturbed>>

\* cleanup_old_entries: let now = Instant::now()
CleanupStart(t) ==
    /\ task[t].pc = "idle" /\ ops < MaxOps
    /\ task' = MarkMutation(
                   [task EXCEPT ![t] =
                      [IdleTask EXCEPT
                         !.pc = "cleanup_scan",
                         !.cl_now = now,
                         !.todo = ToolUseIds,
                         !.start_map = tool_mappings,
                         !.register_ran = \E u \in Tasks \ {t} : task[u].pc = "register",
                         !.mutation_ran = \E u \in Tasks \ {t} : InCleanup(task[u])]],
                   t)
    /\ ops' = ops + 1
    /\ UNCHANGED <<other_vars, tool_mappings, request_counter, now,
                   result, last_insert, undisturbed>>

\* cleanup_old_entries: the iteration reaches the key id
CleanupScan(t, id) ==
    /\ task[t].pc = "cleanup_scan" /\ id \in task[t].todo
    /\ LET todo == task[t].todo \ {id}
           to_remove == IF \E e \in get(tool_mappings, id) : is_expired(e, task[t].cl_now)
                        THEN Append(task[t].to_remove, id)
                        ELSE task[t].to_remove
       IN  task' = [task EXCEPT ![t].todo = todo,
                                ![t].to_remove = to_remove,
                                ![t].count = Len(to_remove),
                                ![t].pc = IF todo # {} THEN "cleanup_scan"
                                          ELSE IF Len(to_remove) > 0 THEN "cleanup_remove"
                                          ELSE "cleanup_return"]
    /\ UNCHANGED <<other_vars, tool_mappings, request_counter, now,
                   result, ops, last_insert,
                   undisturbed>>

\* cleanup_old_entries: one remove of the loop over to_remove
CleanupRemove(t) ==
    /\ task[t].pc = "cleanup_remove"
    /\ LET id == Head(task[t].to_remove)
           rest == Tail(task[t].to_remove)
       IN  /\ tool_mappings' = remove(tool_mappings, id)
           /\ undisturbed' = [undisturbed EXCEPT ![id] = FALSE]
           /\ task' = MarkMutation(
                          [task EXCEPT ![t].to_remove = rest,
                                       ![t].removed = task[t].removed
                                                        + Cardinality(get(tool_mappings, id)),
                                       ![t].pc = IF Len(rest) > 0 THEN "cleanup_remove"
                                                 ELSE "cleanup_return"],
                          t)
    /\ UNCHANGED <<other_vars, request_counter, now, result, ops, last_insert>>

\* cleanup_old_entries returns count
CleanupReturn(t) ==
    /\ task[t].pc = "cleanup_return"
    /\ result' = [result EXCEPT ![t] =
                     [op |-> "cleanup", count |-> task[t].count,
                      removed |-> task[t].removed,
                      register_ran |-> task[t].register_ran,
                      mutation_ran |-> task[t].mutation_ran]]
    /\ task' = [task EXCEPT ![t] = IdleTask]
    /\ UNCHANGED <<other_vars, tool_mappings, request_counter, now, ops,
                   last_insert, undisturbed>>

\* clear: tool_mappings.clear()
ClearMap(t) ==
    /\ task[t].pc = "idle" /\ ops < MaxOps
    /\ tool_mappings' = {}
    /\ undisturbed' = [id \in ToolUseIds |-> FALSE]
    /\ task' = MarkMutation([task EXCEPT ![t].pc = "clear_counter"], t)
    /\ ops' = ops + 1
    /\ UNCHANGED <<other_vars, request_counter, now, result, last_insert>>

\* clear: request_counter.store(0)
ClearCounter(t) ==
    /\ task[t].pc = "clear_counter"
    /\ request_counter' = 0
    /\ task' = [task EXCEPT ![t] = IdleTask]
    /\ result' = [result EXCEPT ![t] = [op |-> "clear"]]
    /\ UNCHANGED <<other_vars, tool_mappings, now, ops, last_insert,
                   undisturbed>>

\* time passes
Tick ==
    /\ now < MaxTime
    /\ now' = now + 1
    /\ UNCHANGED <<other_vars, tool_mappings, request_counter, task,
                   result, ops, last_insert,
                   undisturbed>>

NextState ==
    \/ \E t \in Tasks :
          \/ \E id \in ToolUseIds : \E p \in Payloads : RegisterStart(t, id, p)
          \/ RegisterInsert(t)
          \/ \E id \in ToolUseIds : GetFunctionName(t, id)
          \/ \E id \in ToolUseIds : GetMetadata(t, id)
          \/ \E id \in ToolUseIds : VerifyRoundTrip(t, id)
          \/ LenCall(t)
          \/ CleanupStart(t)
          \/ \E id \in ToolUseIds : CleanupScan(t, id)
          \/ CleanupRemove(t)
          \/ CleanupReturn(t)
          \/ ClearMap(t)
          \/ ClearCounter(t)
    \/ Tick

SpecState == InitState /\ [][NextState]_vars

\* ------------------------------------------------------------------------
\* One request through the validator and the transformer
\* ------------------------------------------------------------------------
InitRequest ==
    /\ elems = <<>>
    /\ stream = StreamOf(elems, <<COMMA>>)
    /\ IdleParser
    /\ IdleGenerator
    /\ IdleState
    /\ IdleCache
    /\ IdleLater
    /\ IdleSchema
    /\ \/ /\ claude_req \in ConversationRequests
          /\ req_state = Some(StoreWith(ToolName))
          /\ auto_todo_prompt \in BOOLEAN
       \/ /\ claude_req \in TodoRequests
          /\ req_state \in StoreChoices
          /\ auto_todo_prompt \in BOOLEAN
       \/ /\ claude_req \in ToolResultRequests
          /\ req_state \in StoreChoices
          /\ auto_todo_prompt \in BOOLEAN
       \/ /\ claude_req \in ParamRequests
          /\ req_state = None
          /\ auto_todo_prompt = FALSE
    /\ validation = NotCalled
    /\ gemini_req = NotCalled
    /\ tool_metrics = NewToolMetrics

\* validate_claude_request is called on the request
Validate ==
    /\ validation = NotCalled
    /\ validation' = validate_claude_request(claude_req)
    /\ UNCHANGED <<parser_vars, sse_vars, state_vars, cache_vars, schema_vars, later_vars,
                   claude_req, req_state,
                   auto_todo_prompt, gemini_req, tool_metrics>>

\* transform_request_with_state is called on the request
Transform ==
    /\ gemini_req = NotCalled
    /\ gemini_req' = transform_request_with_state(claude_req,
                         IF req_state = None THEN None
                         ELSE Some(CHOOSE m \in req_state : TRUE),
                         auto_todo_prompt)
    /\ UNCHANGED <<parser_vars, sse_vars, state_vars, cache_vars, schema_vars, later_vars,
                   claude_req, req_state,
                   auto_todo_prompt, validation, tool_metrics>>

NextRequest == Validate \/ Transform

SpecRequest == InitRequest /\ [][NextRequest]_vars

\* ------------------------------------------------------------------------
\* Tasks calling one ToolSchemaCache.  An access of the ArcSwap (load,
\* compare_and_swap, store) is one step.
\* ------------------------------------------------------------------------
InitCache ==
    /\ elems = <<>>
    /\ stream = StreamOf(elems, <<COMMA>>)
    /\ IdleParser
    /\ IdleGenerator
    /\ IdleState
    /\ IdleRequest
    /\ IdleCache
    /\ IdleLater
    /\ IdleSchema

\* get_or_transform, fast path: load the map and look the name up; a hit
\* returns the cached declaration, a miss goes on to the slow path
CacheLookup(t, tool) ==
    /\ cache_task[t].pc = "idle"
    /\ cache_calls < MaxCalls
    /\ cache_calls' = cache_calls + 1
    /\ \E cached \in {cache_get(tool_cache.map, tool.name)} :
         IF cached # {}
         THEN /\ cache_result' = [cache_result EXCEPT ![t] =
                    [op |-> "get_or_transform", tool |-> tool,
                     value |-> CHOOSE e \in cached : TRUE, retried |-> FALSE]]
              /\ UNCHANGED cache_task
         ELSE /\ cache_task' = [cache_task EXCEPT ![t] =
                    [pc |-> "rcu_load", tool |-> Some(tool),
                     cur |-> NewToolSchemaCache, retried |-> FALSE]]
              /\ UNCHANGED cache_result
    /\ UNCHANGED <<parser_vars, sse_vars, state_vars, request_vars, schema_vars, later_vars,
                   tool_cache, allocs, published>>

\* rcu: load the current map
RcuLoad(t) ==
    /\ cache_task[t].pc = "rcu_load"
    /\ cache_task' = [cache_task EXCEPT ![t].pc = "rcu_cas", ![t].cur = tool_cache]
    /\ UNCHANGED <<parser_vars, sse_vars, state_vars, request_vars, schema_vars, later_vars,
                   tool_cache, allocs, cache_result, cache_calls, published>>

\* rcu: clone the loaded map, insert, and publish the clone if the ArcSwap
\* still holds the loaded pointer; otherwise take what it holds and retry
RcuSwap(t) ==
    /\ cache_task[t].pc = "rcu_cas"
    /\ \E tool \in cache_task[t].tool :
         IF ptr_eq(tool_cache, cache_task[t].cur)
         THEN /\ tool_cache' = [ptr |-> allocs,
                                 map |-> cache_insert(cache_task[t].cur.map,
                                                      transformed(tool))]
              /\ allocs' = allocs + 1
              /\ published' = published \cup {tool.name}
              /\ cache_task' = [cache_task EXCEPT ![t] = IdleCacheTask]
              /\ cache_result' = [cache_result EXCEPT ![t] =
                    [op |-> "get_or_transform", tool |-> tool,
                     value |-> transformed(tool),
                     retried |-> cache_task[t].retried]]
         ELSE /\ cache_task' = [cache_task EXCEPT ![t].cur = tool_cache,
                                                   ![t].retried = TRUE]
              /\ UNCHANGED <<tool_cache, allocs, published, cache_result>>
    /\ UNCHANGED <<parser_vars, sse_vars, state_vars, request_vars, schema_vars, later_vars,
                   cache_calls>>

\* clear: store a new empty map
CacheClear(t) ==
    /\ cache_task[t].pc = "idle"
    /\ cache_calls < MaxCalls
    /\ cache_calls' = cache_calls + 1
    /\ tool_cache' = [ptr |-> allocs, map |-> {}]
    /\ allocs' = allocs + 1
    /\ published' = {}
    /\ cache_result' = [cache_result EXCEPT ![t] = [op |-> "clear"]]
    /\ UNCHANGED <<parser_vars, sse_vars, state_vars, request_vars, schema_vars, later_vars,
                   cache_task>>

NextCache ==
    \E t \in Tasks :
        \/ \E tool \in ClaudeTools : CacheLookup(t, tool)
        \/ RcuLoad(t)
        \/ RcuSwap(t)
        \/ CacheClear(t)

SpecCache == InitCache /\ [][NextCache]_vars

\* ------------------------------------------------------------------------
\* Two tool schemas serialized toward upstream
\* ------------------------------------------------------------------------
InitSchema ==
    /\ elems = <<>>
    /\ stream = StreamOf(elems, <<COMMA>>)
    /\ IdleParser
    /\ IdleGenerator
    /\ IdleState
    /\ IdleRequest
    /\ IdleCache
    /\ IdleLater
    /\ schema_a \in Schemas(MaxDepth)
    /\ schema_b \in SameButAdditional(schema_a)
    /\ json_a = None
    /\ json_b = None

SerializeA ==
    /\ json_a = None
    /\ json_a' = Some(serialize(schema_a))
    /\ UNCHANGED <<parser_vars, sse_vars, state_vars, request_vars, cache_vars,
                   later_vars, schema_a, schema_b, json_b>>

SerializeB ==
    /\ json_b = None
    /\ json_b' = Some(serialize(schema_b))
    /\ UNCHANGED <<parser_vars, sse_vars, state_vars, request_vars, cache_vars,
                   later_vars, schema_a, schema_b, json_a>>

NextSchema == SerializeA \/ SerializeB

SpecSchema == InitSchema /\ [][NextSchema]_vars

\* ------------------------------------------------------------------------
\* Tasks calling TOOL_METRICS.  Each fetch_add, load and store is one step.
\* ------------------------------------------------------------------------
metrics_rest == <<parser_vars, sse_vars, state_vars, cache_vars, schema_vars,
                  stream_vars, handler_vars, claude_req, req_state, auto_todo_prompt, validation, gemini_req>>

InitMetrics ==
    /\ elems = <<>>
    /\ stream = StreamOf(elems, <<COMMA>>)
    /\ IdleParser
    /\ IdleGenerator
    /\ IdleState
    /\ IdleRequest
    /\ IdleCache
    /\ IdleLater
    /\ IdleSchema

MetricsCallStarts(t) ==
    /\ metrics_task[t].pc = "idle" /\ metrics_calls < MaxRecords
    /\ metrics_calls' = metrics_calls + 1

\* record_transformation: total_calls.fetch_add(1)
RecordTransformationTotal(t, d) ==
    /\ MetricsCallStarts(t)
    /\ tool_metrics' = fetch_add(tool_metrics, "total_calls", 1)
    /\ metrics_task' = [metrics_task EXCEPT ![t] =
                           [IdleMetricsTask EXCEPT !.pc = "record_successful",
                                                   !.duration = d]]
    /\ UNCHANGED <<metrics_rest, metrics_result>>

\* record_transformation: successful_transformations.fetch_add(1)
RecordTransformationSuccessful(t) ==
    /\ metrics_task[t].pc = "record_successful"
    /\ tool_metrics' = fetch_add(tool_metrics, "successful_transformations", 1)
    /\ metrics_task' = [metrics_task EXCEPT ![t].pc = "record_time"]
    /\ UNCHANGED <<metrics_rest, metrics_result, metrics_calls>>

\* record_transformation: total_transform_time_us.fetch_add(duration)
RecordTransformationTime(t) ==
    /\ metrics_task[t].pc = "record_time"
    /\ tool_metrics' = fetch_add(tool_metrics, "total_transform_time_us",
                                 metrics_task[t].duration)
    /\ metrics_task' = [metrics_task EXCEPT ![t] = IdleMetricsTask]
    /\ metrics_result' = [metrics_result EXCEPT ![t] = [op |-> "record_transformation"]]
    /\ UNCHANGED <<metrics_rest, metrics_calls>>

\* record_failure: total_calls.fetch_add(1)
RecordFailureTotal(t) ==
    /\ MetricsCallStarts(t)
    /\ tool_metrics' = fetch_add(tool_metrics, "total_calls", 1)
    /\ metrics_task' = [metrics_task EXCEPT ![t] =
                           [IdleMetricsTask EXCEPT !.pc = "record_failed"]]
    /\ UNCHANGED <<metrics_rest, metrics_result>>

\* record_failure: failed_transformations.fetch_add(1)
RecordFailureFailed(t) ==
    /\ metrics_task[t].pc = "record_failed"
    /\ tool_metrics' = fetch_add(tool_metrics, "failed_transformations", 1)
    /\ metrics_task' = [metrics_task EXCEPT ![t] = IdleMetricsTask]
    /\ metrics_result' = [metrics_result EXCEPT ![t] = [op |-> "record_failure"]]
    /\ UNCHANGED <<metrics_rest, metrics_calls>>

RecordToolResult(t) ==
    /\ MetricsCallStarts(t)
    /\ tool_metrics' = fetch_add(tool_metrics, "tool_results_processed", 1)
    /\ metrics_result' = [metrics_result EXCEPT ![t] = [op |-> "record_tool_result"]]
    /\ UNCHANGED <<metrics_rest, metrics_task>>

RecordStateLookupFailure(t) ==
    /\ MetricsCallStarts(t)
    /\ tool_metrics' = fetch_add(tool_metrics, "state_lookup_failures", 1)
    /\ metrics_result' = [metrics_result EXCEPT ![t] =
                             [op |-> "record_state_lookup_failure"]]
    /\ UNCHANGED <<metrics_rest, metrics_task>>

\* snapshot: the load of total_calls
SnapshotStart(t) ==
    /\ MetricsCallStarts(t)
    /\ metrics_task' = [metrics_task EXCEPT ![t] =
                           [IdleMetricsTask EXCEPT
                              !.pc = "snapshot",
                              !.loaded = <<load(tool_metrics, SnapshotLoads[1])>>]]
    /\ UNCHANGED <<metrics_rest, tool_metrics, metrics_result>>

\* snapshot: the next load; after the last one the MetricsSnapshot is returned
SnapshotLoad(t) ==
    /\ metrics_task[t].pc = "snapshot"
    /\ LET k == Len(metrics_task[t].loaded) + 1
           loaded == Append(metrics_task[t].loaded, load(tool_metrics, SnapshotLoads[k]))
       IN  IF k < Len(SnapshotLoads)
           THEN /\ metrics_task' = [metrics_task EXCEPT ![t].loaded = loaded]
                /\ UNCHANGED metrics_result
           ELSE /\ metrics_task' = [metrics_task EXCEPT ![t] = IdleMetricsTask]
                /\ metrics_result' = [metrics_result EXCEPT ![t] =
                                         [op |-> "snapshot",
                                          snapshot |-> MetricsSnapshot(loaded)]]
    /\ UNCHANGED <<metrics_rest, tool_metrics, metrics_calls>>

\* reset: total_calls.store(0)
ResetStart(t) ==
    /\ MetricsCallStarts(t)
    /\ tool_metrics' = atomic_store(tool_metrics, ResetStores[1], 0)
    /\ metrics_task' = [metrics_task EXCEPT ![t] =
                           [IdleMetricsTask EXCEPT !.pc = "reset", !.stored = 1]]
    /\ UNCHANGED <<metrics_rest, metrics_result>>

\* reset: the next store
ResetStore(t) ==
    /\ metrics_task[t].pc = "reset"
    /\ LET k == metrics_task[t].stored + 1
       IN  /\ tool_metrics' = atomic_store(tool_metrics, ResetStores[k], 0)
           /\ IF k < Len(ResetStores)
              THEN /\ metrics_task' = [metrics_task EXCEPT ![t].stored = k]
                   /\ UNCHANGED metrics_result
              ELSE /\ metrics_task' = [metrics_task EXCEPT ![t] = IdleMetricsTask]
                   /\ metrics_result' = [metrics_result EXCEPT ![t] = [op |-> "reset"]]
    /\ UNCHANGED <<metrics_rest, metrics_calls>>

NextMetrics ==
    \E t \in Tasks :
        \/ \E d \in Durations : RecordTransformationTotal(t, d)
        \/ RecordTransformationSuccessful(t)
        \/ RecordTransformationTime(t)
        \/ RecordFailureTotal(t)
        \/ RecordFailureFailed(t)
        \/ RecordToolResult(t)
        \/ RecordStateLookupFailure(t)
        \/ SnapshotStart(t)
        \/ SnapshotLoad(t)
        \/ ResetStart(t)
        \/ ResetStore(t)

SpecMetrics == InitMetrics /\ [][NextMetrics]_vars

\* ------------------------------------------------------------------------
\* transform_to_sse (src/src/handler.rs): the closure mapped over the upstream
\* stream.  One step is one item of the upstream stream; what parser.feed
\* returns for the item's bytes is an input of the step.
\* ------------------------------------------------------------------------
\* the chunks parser.feed returns: parts of both kinds in both orders, with
\* and without a finish_reason, and a chunk that yields no event
StreamChunks ==
    { Chunk(<<Candidate(Some(Content(ps)), fr)>>, None) :
        ps \in { <<Text("Hi"), FunctionCall(ToolName, ArgsSF)>>,
                 <<FunctionCall(OtherToolName, ArgsNYC), Text("Bye")>> },
        fr \in { None, Some("STOP") } }
    \cup { Chunk(<<>>, None) }

\* the lists of at most n such chunks
ChunkLists(n) == UNION { [1..k -> StreamChunks] : k \in 0..n }

\* a put that writes in front of the bytes buffered
put_front(buf, bytes) == bytes \o buf

\* BytesMut::put
put(buf, bytes) == buf \o bytes

\* BytesMut::split: the bytes buffered are taken, the buffer is left empty
split(buf) == [taken |-> buf, rest |-> <<>>]

\* for event in events { outgoing_events.put(event.as_bytes()) }
RECURSIVE for_each_event(_, _)
for_each_event(buf, evs) ==
    IF Len(evs) = 0 THEN buf
    ELSE for_each_event(put(buf, Head(evs)), Tail(evs))

\* for gemini_chunk in parsed_chunks { ... }
RECURSIVE for_each_chunk(_, _)
for_each_chunk(a, parsed_chunks) ==
    IF Len(parsed_chunks) = 0 THEN a
    ELSE LET r == generate_events(a.g, a.store, a.uuids, Head(parsed_chunks))
         IN  for_each_chunk(
                 [g |-> r.g, store |-> r.store, uuids |-> r.uuids,
                  outgoing_events |-> for_each_event(a.outgoing_events, r.events),
                  returned |-> Append(a.returned,
                                      [chunk |-> Head(parsed_chunks),
                                       events |-> r.events])],
                 Tail(parsed_chunks))

stream_rest == <<parser_vars, state_vars, request_vars, cache_vars, schema_vars,
                 metrics_vars, handler_vars, events, chunk_in, n_message_start, n_message_stop,
                 first_frame, last_block_index>>

InitStream ==
    /\ elems = <<>>
    /\ stream = StreamOf(elems, <<COMMA>>)
    /\ IdleParser
    /\ IdleGenerator
    /\ IdleState
    /\ IdleRequest
    /\ IdleCache
    /\ IdleLater
    /\ IdleSchema

\* the upstream item is Ok(chunk) and parser.feed returns Ok(parsed_chunks)
ItemParsed(parsed_chunks) ==
    /\ Len(yielded) < MaxChunks
    /\ \E a \in {for_each_chunk([g |-> gen, store |-> store, uuids |-> uuids,
                                 outgoing_events |-> outgoing_events,
                                 returned |-> returned], parsed_chunks)} :
         /\ gen' = a.g
         /\ store' = a.store
         /\ uuids' = a.uuids
         /\ returned' = a.returned
         /\ IF Len(a.outgoing_events) # 0
            THEN /\ yielded' = Append(yielded, Ok(split(a.outgoing_events).taken))
                 /\ outgoing_events' = split(a.outgoing_events).rest
            ELSE /\ yielded' = Append(yielded, Ok(<<>>))
                 /\ outgoing_events' = a.outgoing_events
    /\ calls' = calls + Len(parsed_chunks)
    /\ UNCHANGED stream_rest

\* the upstream item is Ok(chunk) and parser.feed returns Err: the closure
\* returns the io::Error of kind InvalidData
ItemFeedFails ==
    /\ Len(yielded) < MaxChunks
    /\ yielded' = Append(yielded, Err("InvalidData"))
    /\ UNCHANGED <<stream_rest, gen, store, uuids, calls, outgoing_events, returned>>

\* the upstream item is Err(e)
ItemUpstreamError ==
    /\ Len(yielded) < MaxChunks
    /\ yielded' = Append(yielded, Err("Other"))
    /\ UNCHANGED <<stream_rest, gen, store, uuids, calls, outgoing_events, returned>>

NextStream ==
    \/ \E parsed_chunks \in ChunkLists(MaxChunks - calls) : ItemParsed(parsed_chunks)
    \/ ItemFeedFails
    \/ ItemUpstreamError

SpecStream == InitStream /\ [][NextStream]_vars

\* ------------------------------------------------------------------------
\* handle_messages (src/src/handler.rs) and validate_tools
\* (src/src/validation.rs).  One step is one stage of the handler.  The
\* input_schema of a tool is its type; serde_json::to_vec does not fail on
\* the request types.
\* ------------------------------------------------------------------------
BAD_REQUEST == 400
INTERNAL_SERVER_ERROR == 500
BAD_GATEWAY == 502
OK == 200

ValidTypes == {"object", "array", "string", "number", "integer", "boolean", "null"}

validate_json_schema(schema, depth) ==
    IF depth > 10 THEN Err("InvalidClaudeRequest")
    ELSE IF schema \notin ValidTypes THEN Err("InvalidClaudeRequest")
    ELSE Ok("unit")

validate_tool_schema(tool) ==
    IF tool.name = "" THEN Err("InvalidClaudeRequest")
    ELSE IF Len(tool.name) > 64 THEN Err("InvalidClaudeRequest")
    ELSE IF tool.description = "" THEN Err("InvalidClaudeRequest")
    ELSE validate_json_schema(tool.input_schema, 0)

\* the loop of validate_tools from the i-th tool on; names holds the names
\* inserted so far
RECURSIVE validate_tools_from(_, _, _)
validate_tools_from(ts, i, names) ==
    IF i > Len(ts)
    THEN IF Len(ts) > 128 THEN Err("InvalidClaudeRequest") ELSE Ok("unit")
    ELSE IF ts[i].name \in names THEN Err("InvalidClaudeRequest")
    ELSE IF ~validate_tool_schema(ts[i]).ok THEN validate_tool_schema(ts[i])
    ELSE validate_tools_from(ts, i + 1, names \cup {ts[i].name})

validate_tools(ts) ==
    IF Len(ts) = 0 THEN Ok("unit") ELSE validate_tools_from(ts, 1, {})

\* return (status, e.to_string()).into_response()
respond(h, status) == [h EXCEPT !.pc = "done", !.status = Some(status)]

validation_failed(h) == respond(h, BAD_REQUEST)

\* a handler that answers a failed transformation like a failed validation
transformation_failed_as_bad_request(h) == respond(h, BAD_REQUEST)

transformation_failed(h) == respond(h, INTERNAL_SERVER_ERROR)

upstream_failed(h) == respond(h, BAD_GATEWAY)

\* the registrations the generator of transform_to_sse makes on GLOBAL_STATE,
\* in the order of the ids it generated
RECURSIVE register_all(_, _, _, _, _)
register_all(m, entries, k, n, counter) ==
    IF k > n THEN m
    ELSE LET e == CHOOSE x \in entries : x.id = k
         IN  register_all(
                 register_tool_use_with_context(m, ToString(k), e.function_name,
                                                e.thought_signature, e.args, None,
                                                counter, now),
                 entries, k + 1, n, counter + 1)

\* the requests: valid ones, one without messages, one with max_tokens 0, and
\* one that passes the validation and holds a role the transformer rejects
HandlerRequests ==
    { ClaudeRequest(ms, mt, None, None, None) :
        ms \in { <<ClaudeMessage("user", ContentText("1"))>>,
                 <<ClaudeMessage("user",
                     ContentBlocks(<<BlockToolResult("toolu_123", "1", None)>>))>>,
                 <<>>,
                 <<ClaudeMessage("user", ContentText("1")),
                   ClaudeMessage("system", ContentText("2"))>> },
        mt \in { Some(100), Some(0) } }

\* no tools, no tool, a valid tool, two tools of one name, tools with an
\* empty name, an empty description, an unknown type
HandlerTools ==
    { None, Some(<<>>),
      Some(<<ClaudeTool("tool_1", "Test tool", "object")>>),
      Some(<<ClaudeTool("tool_1", "Test tool", "object"),
             ClaudeTool("tool_1", "Other tool", "string")>>),
      Some(<<ClaudeTool("tool_1", "Test tool", "object"),
             ClaudeTool("", "Test tool", "object")>>),
      Some(<<ClaudeTool("tool_1", "", "object")>>),
      Some(<<ClaudeTool("tool_1", "Test tool", "tuple")>>) }

handler_rest == <<parser_vars, sse_vars, cache_vars, schema_vars, metrics_vars,
                  stream_vars, request_vars, tools, needs_transformation, now,
                  task, result, ops, last_insert, undisturbed>>

InitHandler ==
    /\ elems = <<>>
    /\ stream = StreamOf(elems, <<COMMA>>)
    /\ IdleParser
    /\ IdleGenerator
    /\ IdleCache
    /\ IdleSchema
    /\ IdleMetrics
    /\ IdleStream
    /\ tool_mappings \in { NewConversationState.tool_mappings, StoreWith(ToolName) }
    /\ request_counter = Cardinality(tool_mappings)
    /\ now = 0
    /\ task = [t \in Tasks |-> IdleTask]
    /\ result = [t \in Tasks |-> NoResult]
    /\ ops = 0
    /\ last_insert = [id \in ToolUseIds |-> None]
    /\ undisturbed = [id \in ToolUseIds |-> FALSE]
    /\ claude_req \in HandlerRequests
    /\ req_state = None
    /\ needs_transformation \in BOOLEAN
    /\ auto_todo_prompt \in (IF needs_transformation THEN BOOLEAN ELSE {FALSE})
    /\ validation = NotCalled
    /\ gemini_req = NotCalled
    /\ tool_metrics = NewToolMetrics
    /\ tools \in HandlerTools
    /\ handler = [NewHandler EXCEPT !.store_before = tool_mappings]

\* validate_claude_request(&claude_req)
HandleValidate ==
    /\ handler.pc = "validate"
    /\ LET r == validate_claude_request(claude_req)
           h == [handler EXCEPT !.steps = Append(@, "validate"),
                                !.validation = Some(r)]
       IN  handler' = IF ~r.ok THEN validation_failed(h)
                      ELSE [h EXCEPT !.pc = "validate_tools"]
    /\ UNCHANGED <<handler_rest, tool_mappings, request_counter>>

\* if let Some(ref tools) = claude_req.tools && let Err(e) = validate_tools(tools)
HandleValidateTools ==
    /\ handler.pc = "validate_tools"
    /\ IF tools = None
       THEN handler' = [handler EXCEPT !.pc = "transform"]
       ELSE LET r == validate_tools(CHOOSE ts \in tools : TRUE)
                h == [handler EXCEPT !.steps = Append(@, "validate_tools"),
                                     !.tools_validation = Some(r)]
            IN  handler' = IF ~r.ok THEN validation_failed(h)
                           ELSE [h EXCEPT !.pc = "transform"]
    /\ UNCHANGED <<handler_rest, tool_mappings, request_counter>>

\* the branch on needs_transformation: transform_request_with_state with
\* GLOBAL_STATE, or the request forwarded as it is
HandleTransform ==
    /\ handler.pc = "transform"
    /\ IF needs_transformation
       THEN LET r == transform_request_with_state(claude_req, Some(tool_mappings),
                                                  auto_todo_prompt)
                h == [handler EXCEPT !.steps = Append(@, "transform"),
                                     !.transformation = Some(r)]
            IN  handler' = IF ~r.ok THEN transformation_failed(h)
                           ELSE [h EXCEPT !.pc = "upstream"]
       ELSE handler' = [handler EXCEPT !.pc = "upstream"]
    /\ UNCHANGED <<handler_rest, tool_mappings, request_counter>>

\* state.provider.stream_generate_content(&target_model, body).await
HandleUpstream(r) ==
    /\ handler.pc = "upstream"
    /\ LET h == [handler EXCEPT !.steps = Append(@, "upstream"),
                                !.upstream_requests = @ + 1,
                                !.upstream = Some(r)]
       IN  handler' = IF ~r.ok THEN upstream_failed(h)
                      ELSE [h EXCEPT !.pc = "stream"]
    /\ UNCHANGED <<handler_rest, tool_mappings, request_counter>>

\* the response with the body stream: through transform_to_sse, whose
\* generator registers the tool uses on GLOBAL_STATE, or passed through
HandleStream(parsed_chunks) ==
    /\ handler.pc = "stream"
    /\ handler' = [respond(handler, OK) EXCEPT !.steps = Append(@, "stream")]
    /\ IF needs_transformation
       THEN \E a \in {for_each_chunk([g |-> NewGenerator, store |-> {}, uuids |-> 0,
                                      outgoing_events |-> <<>>, returned |-> <<>>],
                                     parsed_chunks)} :
              /\ tool_mappings' = register_all(tool_mappings, a.store, 1, a.uuids,
                                               request_counter)
              /\ request_counter' = request_counter + a.uuids
       ELSE UNCHANGED <<tool_mappings, request_counter>>
    /\ UNCHANGED handler_rest

NextHandler ==
    \/ HandleValidate
    \/ HandleValidateTools
    \/ HandleTransform
    \/ \E r \in { Ok("stream"), Err("upstream") } : HandleUpstream(r)
    \/ \E parsed_chunks \in ChunkLists(1) : HandleStream(parsed_chunks)

SpecHandler == InitHandler /\ [][NextHandler]_vars

\* ------------------------------------------------------------------------
\* Properties of the parser
\* ------------------------------------------------------------------------
Complete == fed = Len(stream)

\* every element of the stream is a JSON object
WellFormed == \A i \in 1..Len(elems) : Deserializes(elems[i])

\* the values of the elements that are JSON objects, in stream order
RECURSIVE ValidValues(_)
ValidValues(es) ==
    IF Len(es) = 0 THEN <<>>
    ELSE IF Deserializes(es[1]) THEN <<ChunkValue(es[1])>> \o ValidValues(Tail(es))
    ELSE ValidValues(Tail(es))

IsPrefix(s, t) == Len(s) <= Len(t) /\ SubSeq(t, 1, Len(s)) = s

\* C1: for a well-formed stream, the chunks returned by the feeds of any
\* partition of the stream, concatenated, are the chunks that one feed of the
\* whole stream to a fresh parser returns.
C1_ChunkingEquivalence ==
    (WellFormed /\ Complete) => emitted = feed(NewParser, stream).results

\* a well-formed stream of two objects, fed in slices that split an object
C1_Witness ==
    /\ WellFormed /\ Complete /\ partial_seen
    /\ Len(elems) = 2 /\ Len(emitted) = 2 /\ emitted[1] # emitted[2]

\* C2: when the stream holds invalid objects among valid ones, every valid
\* object of the stream has been emitted once the stream is fed.
C2_Resilience ==
    Complete =>
        \A i \in 1..Len(elems) :
            Deserializes(elems[i]) =>
                \E j \in 1..Len(emitted) : emitted[j] = ChunkValue(elems[i])

\* C3: feed returns Ok; when every invalid object of the stream is
\* brace-balanced, each element is split off the buffer as one candidate, the
\* invalid ones add no chunk, and the valid ones are emitted in order.
C3_SkipAndContinue ==
    /\ feed_ok
    /\ (\A i \in 1..Len(elems) : elems[i] \notin UnbalancedInvalid) =>
          /\ IsPrefix(emitted, ValidValues(elems))
          /\ Complete => /\ emitted = ValidValues(elems)
                         /\ candidates = elems
                         /\ parser.buffer = <<>>

\* a brace-balanced invalid object followed by a valid one, split over feeds
C3_Witness ==
    /\ Complete /\ partial_seen /\ Len(elems) = 2
    /\ elems[1] \in BalancedInvalid
    /\ Deserializes(elems[2])
    /\ emitted = <<ChunkValue(elems[2])>>

\* C4: for a well-formed stream the candidates are the array elements, each
\* from its opening brace to its matching closing brace, whatever the string
\* literals hold.
C4_CandidateIsElement ==
    WellFormed => /\ IsPrefix(candidates, elems)
                  /\ Complete => candidates = elems

\* a string literal with a closing brace after an escaped backslash
C4_Witness ==
    /\ WellFormed /\ Complete /\ partial_seen
    /\ \E i \in 1..Len(elems) : elems[i] = ObjWithString(<<BS, BS, RC>>)
    /\ candidates = elems

\* ------------------------------------------------------------------------
\* Properties of the event generator
\* ------------------------------------------------------------------------
HasFinish(chunk) ==
    Len(chunk.candidates) > 0 /\ chunk.candidates[1].finish_reason # None

IsToolUseStart(f) == f.type = "content_block_start" /\ f.block = "tool_use"

IsInputJsonDelta(f) == f.type = "content_block_delta" /\ f.delta = "input_json_delta"

\* the content-block indices of the frames fs, in order
RECURSIVE BlockIndices(_)
BlockIndices(fs) ==
    IF Len(fs) = 0 THEN <<>>
    ELSE IF IsBlockFrame(fs[1]) THEN <<fs[1].index>> \o BlockIndices(Tail(fs))
    ELSE BlockIndices(Tail(fs))

NonDecreasing(is) == \A i \in 1..Len(is) : \A j \in i..Len(is) : is[i] <= is[j]

\* C5: a connection sends message_stop at most once.
C5_MessageStopAtMostOnce == n_message_stop <= 1

\* C6: a connection sends message_start at most once.
C6_MessageStartAtMostOnce == n_message_start <= 1

\* a call after the headers that sends frames and no second message_start
C6_Witness ==
    /\ n_message_start = 1 /\ calls >= 2 /\ n_message_stop >= 1
    /\ Len(events) > 0
    /\ CountType(Frames(events), "message_start") = 0

\* the frames of a call that found the headers unsent and a finish reason:
\* message_start, the text block's start, and later the stop sequence
HeadersThenStop(fs) ==
    /\ Len(fs) >= 4
    /\ fs[1].type = "message_start"
    /\ fs[2] = [type |-> "content_block_start", index |-> 0, block |-> "text"]
    /\ fs[Len(fs) - 1].type = "message_delta"
    /\ fs[Len(fs)].type = "message_stop"
    /\ \A i \in 1..(Len(fs) - 2) : fs[i].type \notin {"message_delta", "message_stop"}

\* C7: the first frame of a connection is message_start, and a chunk with a
\* finish reason that finds the headers unsent sends message_start and
\* content_block_start(index 0, text) in that call, before the stop sequence.
C7_MessageStartFirst ==
    /\ [](first_frame \in {NoFrame, "message_start"})
    /\ [][ \A chunk \in ChunkSet :
             (~gen.header_sent /\ HasFinish(chunk) /\ GenerateEvents(chunk))
                 => HeadersThenStop(Frames(events')) ]_vars

\* a finish reason without content arrives first: five frames in one call
C7_Witness ==
    /\ calls = 1 /\ first_frame = "message_start"
    /\ Len(Frames(events)) = 5
    /\ HeadersThenStop(Frames(events))

\* C8: the indices of the content-block frames of a connection, in the order
\* sent, never decrease.
C8_IndexNonDecreasing ==
    [][ NonDecreasing(<<last_block_index>> \o BlockIndices(Frames(events'))) ]_vars

\* C9: the start, the input_json_delta and the stop of a tool_use block carry
\* one index: a tool_use start is followed by its delta and its stop, and an
\* input_json_delta or a stop of a tool_use block follows its start.
C9_ToolUseBlockOneIndex ==
    LET fs == Frames(events)
    IN  /\ \A i \in 1..Len(fs) :
               IsToolUseStart(fs[i]) =>
                   /\ i + 2 <= Len(fs)
                   /\ IsInputJsonDelta(fs[i + 1])
                   /\ fs[i + 1].index = fs[i].index
                   /\ fs[i + 2].type = "content_block_stop"
                   /\ fs[i + 2].index = fs[i].index
        /\ \A i \in 1..Len(fs) :
               IsInputJsonDelta(fs[i]) => i > 1 /\ IsToolUseStart(fs[i - 1])

\* two function calls in one chunk, after a tool_use block of an earlier chunk
C9_Witness ==
    LET fs == Frames(events)
    IN  /\ calls >= 2 /\ gen.content_block_index = 3
        /\ Cardinality({ i \in 1..Len(fs) : IsToolUseStart(fs[i]) }) = 2

\* the first candidate holds one function-call part and a finish reason
SingleCallWithFinish(chunk) ==
    /\ HasFinish(chunk)
    /\ \E content \in chunk.candidates[1].content :
           Len(content.parts) = 1 /\ IsFunctionCallPart(content.parts[1])

\* what a client reads off a frame: type, index, block or delta kind, stop reason
Shape(f) ==
    CASE f.type = "content_block_start" -> <<f.type, f.index, f.block>>
      [] f.type = "content_block_delta" ->
             IF f.delta = "input_json_delta"
             THEN <<f.type, f.index, f.delta, f.partial_json>>
             ELSE <<f.type, f.index, f.delta, f.text>>
      [] f.type = "content_block_stop" -> <<f.type, f.index>>
      [] f.type = "message_delta" -> <<f.type, f.stop_reason>>
      [] OTHER -> <<f.type>>

Shapes(fs) == [i \in 1..Len(fs) |-> Shape(fs[i])]

\* C10: a fresh generator given one chunk with a single function call and a
\* finish reason sends exactly message_start, content_block_start(tool_use, 1),
\* content_block_delta(input_json_delta, 1), content_block_stop(1),
\* message_delta(tool_use), message_stop.
C10_SingleCallSequence ==
    [][ \A chunk \in ChunkSet :
          (calls = 0 /\ SingleCallWithFinish(chunk) /\ GenerateEvents(chunk))
              => Shapes(Frames(events')) =
                   << <<"message_start">>,
                      <<"content_block_start", 1, "tool_use">>,
                      <<"content_block_delta", 1, "input_json_delta",
                        to_string(ArgsSF)>>,
                      <<"content_block_stop", 1>>,
                      <<"message_delta", "tool_use">>,
                      <<"message_stop">> >> ]_vars

\* the function-call parts of the first candidate, in order
RECURSIVE CallParts(_)
CallParts(ps) ==
    IF Len(ps) = 0 THEN <<>>
    ELSE IF IsFunctionCallPart(ps[1]) THEN <<ps[1]>> \o CallParts(Tail(ps))
    ELSE CallParts(Tail(ps))

FirstCandidateCalls(chunk) ==
    IF Len(chunk.candidates) = 0 \/ chunk.candidates[1].content = None THEN <<>>
    ELSE CallParts((CHOOSE c \in chunk.candidates[1].content : TRUE).parts)

\* C11: a chunk with a finish reason whose content has a function-call part,
\* with or without thought signature, sends one content_block_stop per
\* tool_use block of the chunk and no other content_block_stop.
C11_NoExtraBlockStop ==
    [][ \A chunk \in ChunkSet :
          (HasFinish(chunk) /\ Len(FirstCandidateCalls(chunk)) >= 1
           /\ GenerateEvents(chunk))
              => CountType(Frames(events'), "content_block_stop")
                   = Len(FirstCandidateCalls(chunk)) ]_vars

\* some candidate of the chunk holds a function-call part of either kind
ContainsFunctionCall(chunk) ==
    \E i \in 1..Len(chunk.candidates) :
        \E content \in chunk.candidates[i].content :
            \E j \in 1..Len(content.parts) : IsFunctionCallPart(content.parts[j])

\* the stop reason a client is to read for a finishing chunk
ExpectedStopReason(chunk) ==
    LET r == CHOOSE x \in chunk.candidates[1].finish_reason : TRUE
    IN  IF ContainsFunctionCall(chunk) THEN "tool_use"
        ELSE IF r = "MAX_TOKENS" THEN "max_tokens"
        ELSE IF r \in {"SAFETY", "RECITATION"} THEN "stop_sequence"
        ELSE "end_turn"

\* C12: the stop_reason of message_delta is tool_use when the finishing chunk
\* contains a function-call part of either kind; otherwise end_turn for STOP,
\* OTHER and unknown reasons, max_tokens for MAX_TOKENS, stop_sequence for
\* SAFETY and RECITATION.
C12_StopReason ==
    [][ \A chunk \in ChunkSet :
          (HasFinish(chunk) /\ GenerateEvents(chunk))
              => LET fs == Frames(events')
                 IN  /\ CountType(fs, "message_delta") = 1
                     /\ \A i \in 1..Len(fs) :
                            fs[i].type = "message_delta"
                                => fs[i].stop_reason = ExpectedStopReason(chunk) ]_vars

\* the tool_use content_block_start frames of fs, in order
RECURSIVE ToolStarts(_)
ToolStarts(fs) ==
    IF Len(fs) = 0 THEN <<>>
    ELSE IF IsToolUseStart(fs[1]) THEN <<fs[1]>> \o ToolStarts(Tail(fs))
    ELSE ToolStarts(Tail(fs))

SignatureOf(part) ==
    IF part.kind = "FunctionCallWithThought" THEN Some(part.thought_signature)
    ELSE None

\* C13: each function-call part processed writes exactly one entry of the
\* correlation store, keyed by the id of the tool_use content_block_start sent
\* for it, with the function's name, args and thought signature (none for a
\* call without signature); the entry is in the store when generate_events
\* returns.
C13_OneEntryPerCall ==
    [][ calls' = calls + 1
              => LET cs == FirstCandidateCalls(chunk_in')
                     ts == ToolStarts(Frames(events'))
                 IN  /\ Len(ts) = Len(cs)
                     /\ store \subseteq store'
                     /\ Cardinality(store') = Cardinality(store) + Len(cs)
                     /\ \A j \in 1..Len(cs) :
                            /\ ts[j].name = cs[j].name
                            /\ { e \in store' : e.id = ts[j].id }
                                 = { [id |-> ts[j].id,
                                      function_name |-> cs[j].name,
                                      thought_signature |-> SignatureOf(cs[j]),
                                      args |-> cs[j].args] } ]_vars

\* two calls of one chunk, one without and one with a signature, registered
\* after an earlier call
C13_Witness ==
    /\ calls >= 2 /\ Cardinality(store) >= 3
    /\ Len(ToolStarts(Frames(events))) = 2
    /\ \E e \in store : e.function_name = OtherToolName /\ e.thought_signature = None
    /\ \E e \in store : e.function_name = ToolName /\ e.thought_signature = Some("sig")

\* ------------------------------------------------------------------------
\* Properties of the correlation store
\* ------------------------------------------------------------------------
\* C14: after a register for an id has completed, with no other register for
\* the id, no clear and no removal by a cleanup since, get_function_name of
\* the id from any task returns the registered name and verify_round_trip
\* returns true; verify_round_trip returns false for an id without entry.
C14_RegisteredNameVisible ==
    [][ \A t \in Tasks : \A id \in ToolUseIds :
          /\ (GetFunctionName(t, id) /\ undisturbed[id])
                 => result'[t].name
                      = { f.function_name : f \in last_insert[id] }
                    /\ result'[t].name # None
          /\ (VerifyRoundTrip(t, id) /\ undisturbed[id]) => result'[t].ok
          /\ (VerifyRoundTrip(t, id) /\ get(tool_mappings, id) = None)
                 => ~result'[t].ok ]_vars

\* one task has registered a name, the other task has read it
C14_Witness ==
    \E t \in Tasks : \E u \in Tasks \ {t} :
        /\ result[t].op = "register"
        /\ result[u].op = "get_function_name"
        /\ result[u].id = result[t].id
        /\ undisturbed[result[t].id]
        /\ result[u].name = Some("second_func")

\* the fields of an entry that a register call supplies
FieldSet(e) ==
    [function_name |-> e.function_name,
     thought_signature |-> e.thought_signature,
     args |-> e.args,
     request_index |-> e.request_index,
     original_id |-> e.original_id]

\* C15: get_metadata of an id returns nothing or the complete field set of
\* one register call, the one whose insert was applied last to the map, and
\* len counts each id once.
C15_NoTornMetadata ==
    [][ \A t \in Tasks :
          /\ \A id \in ToolUseIds :
                 GetMetadata(t, id)
                     => \/ result'[t].metadata = None
                        \/ /\ Cardinality(result'[t].metadata) = 1
                           /\ \A e \in result'[t].metadata :
                                  Some(FieldSet(e)) = last_insert[id]
          /\ LenCall(t)
                 => result'[t].n = Cardinality({ e.id : e \in tool_mappings }) ]_vars

\* two registers of one id overlap: the one that took the lower request index
\* inserts last, and a reader gets its fields
C15_Witness ==
    \E t \in Tasks :
        /\ result[t].op = "get_metadata"
        /\ ops = 3 /\ request_counter = 2 /\ len(tool_mappings) = 1
        /\ \E e \in result[t].metadata :
               e.request_index = 0 /\ e.function_name = "second_func"

\* what a cleanup that returns leaves behind: no entry older than the
\* retention at the instant the cleanup started, and every entry that was in
\* the map at that instant and not older than the retention
CleanupPost(tk) ==
    /\ \A e \in tool_mappings : ~(tk.cl_now - e.timestamp > retention_duration)
    /\ \A e \in tk.start_map :
           tk.cl_now - e.timestamp <= retention_duration => e \in tool_mappings

\* C16 as stated: a cleanup during which no register ran leaves no entry older
\* than the retention and every entry not older than it.
C16_CleanupAsStated ==
    [][ \A t \in Tasks :
          (CleanupReturn(t) /\ ~task[t].register_ran) => CleanupPost(task[t]) ]_vars

\* C16: a cleanup during which no register, no clear and no other cleanup ran
\* leaves no entry older than the retention and every entry not older than it.
C16_CleanupRemovesExpiredOnly ==
    [][ \A t \in Tasks :
          (CleanupReturn(t) /\ ~task[t].register_ran /\ ~task[t].mutation_ran)
              => CleanupPost(task[t]) ]_vars

\* a cleanup that ran alone has removed one entry and kept a younger one
C16_Witness ==
    \E t \in Tasks :
        /\ result[t].op = "cleanup"
        /\ ~result[t].register_ran /\ ~result[t].mutation_ran
        /\ result[t].count = 1
        /\ len(tool_mappings) = 1
        /\ \E e \in tool_mappings : now - e.timestamp = retention_duration


\* C34: cleanup_old_entries removes no entry whose age is at most
\* retention_duration at the instant of the removal, also when a register of
\* an expired id runs concurrently.
C34_YoungEntryKept ==
    [][ \A t \in Tasks :
          CleanupRemove(t)
              => \A e \in tool_mappings \ tool_mappings' :
                     duration_since(now, e.timestamp) > retention_duration ]_vars

\* C40: the value cleanup_old_entries returns is the number of entries its own
\* removes took out of the map, also when another cleanup or a clear runs
\* concurrently.
C40_CountIsRemoved ==
    \A t \in Tasks :
        result[t].op = "cleanup" => result[t].count = result[t].removed

\* C30: under any interleaving of register and clear, no two entries that are
\* in the store at the same time carry the same request_index.
C30_UniqueRequestIndex ==
    \A e1 \in tool_mappings : \A e2 \in tool_mappings :
        e1.id # e2.id => e1.request_index # e2.request_index

\* ------------------------------------------------------------------------
\* Properties of the validator and the request transformer
\* ------------------------------------------------------------------------
BothCalled == validation # NotCalled /\ gemini_req # NotCalled

\* the parts of all entries of contents, in order
RECURSIVE AllParts(_)
AllParts(contents) ==
    IF Len(contents) = 0 THEN <<>>
    ELSE contents[1].parts \o AllParts(Tail(contents))

RECURSIVE ResponseParts(_)
ResponseParts(parts) ==
    IF Len(parts) = 0 THEN <<>>
    ELSE IF parts[1].kind = "FunctionResponse"
         THEN <<parts[1]>> \o ResponseParts(Tail(parts))
         ELSE ResponseParts(Tail(parts))

\* a user message that is neither the first nor the last user message of a
\* request with more than three messages
Dropped(ms, i) ==
    /\ ms[i].role = "user" /\ Len(ms) > 3
    /\ \E j \in 1..(i - 1) : ms[j].role = "user"
    /\ \E j \in (i + 1)..Len(ms) : ms[j].role = "user"

\* the function name registered for an id, else the id
NameOrId(id) ==
    LET names == { e.function_name : e \in { x \in UNION req_state : x.id = id } }
    IN  IF names = {} THEN id ELSE CHOOSE n \in names : TRUE

RECURSIVE ExpectedOfBlocks(_)
ExpectedOfBlocks(blocks) ==
    IF Len(blocks) = 0 THEN <<>>
    ELSE IF blocks[1].type = "tool_result"
         THEN << FunctionResponsePart(
                   NameOrId(blocks[1].tool_use_id),
                   [result |-> blocks[1].content,
                    error |-> blocks[1].is_error = Some(TRUE)]) >>
              \o ExpectedOfBlocks(Tail(blocks))
         ELSE ExpectedOfBlocks(Tail(blocks))

RECURSIVE ExpectedResponses(_, _)
ExpectedResponses(ms, i) ==
    IF i > Len(ms) THEN <<>>
    ELSE IF Dropped(ms, i) \/ ms[i].content.kind = "Text"
         THEN ExpectedResponses(ms, i + 1)
         ELSE ExpectedOfBlocks(ms[i].content.blocks) \o ExpectedResponses(ms, i + 1)

Source(entry) ==
    LET p == entry.parts[1]
        t == IF p.kind = "FunctionResponse" THEN p.response.result ELSE p.text
    IN  CHOOSE i \in 1..Len(claude_req.messages) : ToString(i) = t

YieldsPart(m) ==
    \/ m.content.kind = "Text"
    \/ /\ m.content.kind = "Blocks"
       /\ \E k \in 1..Len(m.content.blocks) :
              m.content.blocks[k].type \in {"text", "tool_result"}

Roles(xs) == [k \in 1..Len(xs) |-> xs[k].role]

\* C18: with more than three messages the output has no entry of a user
\* message other than the first and the last user message, every assistant
\* message that yields a part is kept, and the entries keep the order of
\* their messages ([user, assistant, user, assistant, user] gives user, model,
\* model, user); with three or fewer messages no message that yields a part
\* is dropped.
C18_UserFilter ==
    gemini_req.ok =>
        LET ms == claude_req.messages
            out == gemini_req.value.contents
            src == [k \in 1..Len(out) |-> Source(out[k])]
        IN  /\ \A k \in 1..Len(out) : \A l \in (k + 1)..Len(out) : src[k] < src[l]
            /\ \A k \in 1..Len(out) :
                   out[k].role = IF ms[src[k]].role = "assistant" THEN "model"
                                 ELSE "user"
            /\ Len(ms) > 3 =>
                   \A k \in 1..Len(out) :
                       ms[src[k]].role = "user"
                           => \/ \A j \in 1..(src[k] - 1) : ms[j].role # "user"
                              \/ \A j \in (src[k] + 1)..Len(ms) : ms[j].role # "user"
            /\ \A i \in 1..Len(ms) :
                   (ms[i].role = "assistant" /\ YieldsPart(ms[i]))
                       => \E k \in 1..Len(out) : src[k] = i
            /\ Len(ms) <= 3 =>
                   \A i \in 1..Len(ms) :
                       YieldsPart(ms[i]) => \E k \in 1..Len(out) : src[k] = i
            /\ (Roles(ms) = <<"user", "assistant", "user", "assistant", "user">>
                /\ \A i \in 1..Len(ms) : YieldsPart(ms[i]))
                   => Roles(out) = <<"user", "model", "model", "user">>

\* five messages, the middle user message dropped
C18_Witness ==
    /\ gemini_req.ok
    /\ Roles(claude_req.messages) = <<"user", "assistant", "user", "assistant", "user">>
    /\ \A i \in 1..5 : YieldsPart(claude_req.messages[i])
    /\ Len(gemini_req.value.contents) = 4

\* C19: the transformer returns Ok for every request the validator accepts.
C19_ValidatorSoundness ==
    (BothCalled /\ validation.ok) => gemini_req.ok

OnlySystemMessage ==
    /\ Len(claude_req.messages) = 1
    /\ claude_req.messages[1].role = "system"

\* C20 as stated: a request whose only message has role "system" is accepted
\* by the validator and rejected by the transformer with a
\* TransformationError.
C20_SystemOnlyAsStated ==
    (BothCalled /\ OnlySystemMessage)
        => validation.ok /\ gemini_req = Err("TransformationError")

\* C20: a request whose only message has role "system" is rejected by the
\* validator as an InvalidClaudeRequest, and the transformer rejects it with
\* a TransformationError.
C20_SystemOnlyRejectedTwice ==
    (BothCalled /\ OnlySystemMessage)
        => /\ validation = Err("InvalidClaudeRequest")
           /\ gemini_req = Err("TransformationError")

C20_Witness == BothCalled /\ OnlySystemMessage

\* C24: every element of the list generate_events returns is one SSE frame,
\* an event line, a data line and a blank line, the elements pushed for
\* tool_use blocks included.
C24_OneFramePerElement ==
    \A i \in 1..Len(events) : Len(events[i]) = 1

\* the number of bytes of the texts of the chunks
TextBytes(text) == CASE text = "Hi" -> 2 [] text = " " -> 1 [] OTHER -> 0

Max(a, b) == IF a >= b THEN a ELSE b

\* the sum of max(len(text)/4, 1) over the text deltas among the frames fs
RECURSIVE EstimatedTokens(_)
EstimatedTokens(fs) ==
    IF Len(fs) = 0 THEN 0
    ELSE (IF fs[1].type = "content_block_delta" /\ fs[1].delta = "text_delta"
          THEN Max(TextBytes(fs[1].text) \div 4, 1) ELSE 0)
         + EstimatedTokens(Tail(fs))

CarriesCandidatesCount(chunk) ==
    \E u \in chunk.usage_metadata : u.candidates_token_count # None

\* C25: when the first chunk of a connection carries no candidates_token_count
\* and finishes the message, the output_tokens of its message_delta is the sum
\* of max(len(text)/4, 1) over the text deltas sent on the connection.
C25_EstimatedOutputTokens ==
    [][ (calls = 0 /\ calls' = 1 /\ ~CarriesCandidatesCount(chunk_in'))
          => LET fs == Frames(events')
             IN  \A i \in 1..Len(fs) :
                     fs[i].type = "message_delta"
                         => fs[i].output_tokens = EstimatedTokens(SubSeq(fs, 1, i)) ]_vars

\* the positions of the frames of type t that carry the index idx
FramesAt(fs, t, idx) == { k \in 1..Len(fs) : fs[k].type = t /\ fs[k].index = idx }

\* C35: no two content_block_start frames sent on a connection carry the same
\* index (stated of the frames one generate_events call returns).
C35_DistinctStartIndices ==
    LET fs == Frames(events)
    IN  \A idx \in 0..MaxTools : Cardinality(FramesAt(fs, "content_block_start", idx)) <= 1

\* C36: when message_stop is sent, every block opened by a content_block_start
\* has been closed by one content_block_stop of the same index, and no
\* content_block_stop was sent for an index that is not open (stated of a
\* connection whose first chunk finishes the message).
C36_BlocksClosedAtStop ==
    LET fs == Frames(events)
    IN  (calls = 1 /\ CountType(fs, "message_stop") >= 1)
            => \A idx \in 0..MaxTools :
                   Cardinality(FramesAt(fs, "content_block_start", idx))
                     = Cardinality(FramesAt(fs, "content_block_stop", idx))

\* C37: once message_stop has been sent on a connection, generate_events
\* returns no events for any later chunk.
C37_SilentAfterStop ==
    [][ (n_message_stop >= 1 /\ calls' = calls + 1) => events' = <<>> ]_vars

\* C38: when a tool_use block was sent in an earlier chunk of the connection,
\* the message_delta sent for the chunk that carries finish_reason reports
\* stop_reason tool_use.
C38_ToolUseRemembered ==
    [][ ( /\ calls' = calls + 1
          /\ uuids >= 1
          /\ n_message_stop = 0
          /\ HasFinish(chunk_in') )
          => LET fs == Frames(events')
             IN  /\ CountType(fs, "message_delta") = 1
                 /\ \A k \in 1..Len(fs) :
                        fs[k].type = "message_delta" => fs[k].stop_reason = "tool_use" ]_vars

\* the first candidate holds no text part with a non-blank text and no
\* function-call part
NoMeaningfulContent(chunk) ==
    \/ Len(chunk.candidates) = 0
    \/ \A content \in chunk.candidates[1].content :
           \A j \in 1..Len(content.parts) :
               /\ content.parts[j].kind \notin {"FunctionCall", "FunctionCallWithThought"}
               /\ content.parts[j].kind \in {"Text", "TextWithThought"}
                      => content.parts[j].text \in {"", " "}

RECURSIVE RetainedResults(_, _)
RetainedResults(ms, i) ==
    IF i > Len(ms) THEN <<>>
    ELSE IF Dropped(ms, i) \/ ms[i].content.kind = "Text"
         THEN RetainedResults(ms, i + 1)
         ELSE SelectSeq(ms[i].content.blocks, LAMBDA b : b.type = "tool_result")
              \o RetainedResults(ms, i + 1)

HasEntry(id) == \E m \in req_state : \E e \in m : e.id = id

\* C26: with a correlation store supplied, the transform adds to
\* state_lookup_failures one per ToolResult it processes whose tool_use_id has
\* no entry in the store, and nothing for a ToolResult whose id is found.
C26_LookupFailuresCounted ==
    (gemini_req.ok /\ req_state # None)
        => LET rs == RetainedResults(claude_req.messages, 1)
           IN  tool_metrics.state_lookup_failures
                 = NewToolMetrics.state_lookup_failures
                   + Cardinality({ k \in 1..Len(rs) : ~HasEntry(rs[k].tool_use_id) })

\* C28: every entry of the output contents has at least one part, none of them
\* made from a ToolUse block, and the entries are those of the retained
\* messages that yield a part: a message left with zero parts has no entry.
C28_NoEmptyEntry ==
    gemini_req.ok =>
        LET ms == claude_req.messages
            out == gemini_req.value.contents
        IN  /\ \A k \in 1..Len(out) : Len(out[k].parts) >= 1
            /\ \A k \in 1..Len(out) : \A j \in 1..Len(out[k].parts) :
                   out[k].parts[j].kind \in {"Text", "FunctionResponse"}
            /\ Len(out) = Cardinality({ i \in 1..Len(ms) :
                                          ~Dropped(ms, i) /\ YieldsPart(ms[i]) })

\* an assistant message holding a ToolUse block only, left out between the
\* entries of its neighbours
C28_Witness ==
    /\ gemini_req.ok
    /\ Len(claude_req.messages) = 3
    /\ claude_req.messages[2].role = "assistant"
    /\ claude_req.messages[2].content.kind = "Blocks"
    /\ Roles(gemini_req.value.contents) = <<"user", "user">>

IsReminder(part) == part.kind = "Text" /\ part.text = TodoDirective

ReminderCount(contents) ==
    LET ps == AllParts(contents)
    IN  Cardinality({ k \in 1..Len(ps) : IsReminder(ps[k]) })

\* some retained message produced a FunctionResponse whose name is not
\* TodoWrite
NonTodoResponse(ms) ==
    LET rs == RetainedResults(ms, 1)
    IN  \E k \in 1..Len(rs) : NameOrId(rs[k].tool_use_id) # "TodoWrite"

\* C29: the output holds one system-reminder part, the last part of its last
\* user-role entry, if auto_todo_prompt is set and some retained message
\* produced a FunctionResponse whose resolved name is not TodoWrite, and no
\* reminder part otherwise.
C29_TodoReminder ==
    gemini_req.ok =>
        LET out == gemini_req.value.contents
        IN  IF auto_todo_prompt /\ NonTodoResponse(claude_req.messages)
            THEN /\ ReminderCount(out) = 1
                 /\ \E k \in 1..Len(out) :
                        /\ out[k].role = "user"
                        /\ \A l \in (k + 1)..Len(out) : out[l].role # "user"
                        /\ IsReminder(out[k].parts[Len(out[k].parts)])
            ELSE ReminderCount(out) = 0

HasUserEntry(contents) == \E k \in 1..Len(contents) : contents[k].role = "user"

\* C29, amended: the output holds one system-reminder part, the last part of
\* its last user-role entry, if auto_todo_prompt is set, some retained message
\* produced a FunctionResponse whose resolved name is not TodoWrite, and the
\* output has a user-role entry; it holds no reminder part otherwise.
C29_TodoReminderGivenUserEntry ==
    gemini_req.ok =>
        LET out == gemini_req.value.contents
        IN  IF auto_todo_prompt /\ NonTodoResponse(claude_req.messages)
               /\ HasUserEntry(out)
            THEN /\ ReminderCount(out) = 1
                 /\ \E k \in 1..Len(out) :
                        /\ out[k].role = "user"
                        /\ \A l \in (k + 1)..Len(out) : out[l].role # "user"
                        /\ IsReminder(out[k].parts[Len(out[k].parts)])
                        /\ Len(out[k].parts) >= 2
            ELSE ReminderCount(out) = 0

\* five messages, the tool result of the first user message answered by a
\* reminder at the end of the entry of the last
C29_Witness ==
    /\ gemini_req.ok
    /\ auto_todo_prompt
    /\ Len(claude_req.messages) = 5
    /\ claude_req.messages[1].content.kind = "Blocks"
    /\ claude_req.messages[5].content.kind = "Text"
    /\ Roles(gemini_req.value.contents) = <<"user", "model", "model", "user">>
    /\ ReminderCount(gemini_req.value.contents) = 1
    /\ IsReminder(gemini_req.value.contents[4].parts[2])

\* ------------------------------------------------------------------------
\* Properties of the tool schema cache
\* ------------------------------------------------------------------------
CacheQuiet == \A t \in Tasks : cache_task[t].pc = "idle"

Names(m) == { e.name : e \in m }

\* C21: a get_or_transform for a name that is cached with another description
\* or input schema, run with no other call under way, leaves the conversion of
\* the tool it was given in the cache, and one entry for the name.
C21_ReregisterReplaces ==
    [][ \A t \in Tasks : \A tool \in ClaudeTools :
          ( /\ CacheQuiet
            /\ cache_get(tool_cache.map, tool.name) # {}
            /\ cache_get(tool_cache.map, tool.name) # {transformed(tool)}
            /\ CacheLookup(t, tool) )
          => cache_get(tool_cache'.map, tool.name) = {transformed(tool)} ]_vars

\* C22: when no call is under way, the names in the cache are the names whose
\* insert was published since the last clear, one entry each.
C22_NoLostInsert ==
    CacheQuiet
        => /\ Names(tool_cache.map) = published
           /\ Cardinality(tool_cache.map) = Cardinality(published)

\* two tasks inserted different names, the second after its compare_and_swap
\* failed against the first, and both have returned
C22_Witness ==
    /\ CacheQuiet
    /\ published = ToolNames
    /\ tool_cache.ptr = 2
    /\ \A t \in Tasks : cache_result[t].op = "get_or_transform"
    /\ cache_result["t1"].tool.name # cache_result["t2"].tool.name
    /\ \E t \in Tasks : cache_result[t].retried

\* C39: the declaration a get_or_transform call returns has the description
\* and the parameters of the tool passed in that call, whatever tools of the
\* same name were converted before.
C39_ReturnsOwnConversion ==
    \A t \in Tasks :
        cache_result[t].op = "get_or_transform"
            => /\ cache_result[t].value.description = cache_result[t].tool.description
               /\ cache_result[t].value.parameters = cache_result[t].tool.input_schema

\* ------------------------------------------------------------------------
\* Properties of the schema serializer
\* ------------------------------------------------------------------------
\* the object and the objects nested in it, under properties and items, hold
\* supported keys only
RECURSIVE OnlySupportedKeys(_)
OnlySupportedKeys(json) ==
    /\ DOMAIN json \subseteq SupportedKeys
    /\ "properties" \in DOMAIN json
         => \A k \in DOMAIN json["properties"] :
                OnlySupportedKeys(json["properties"][k])
    /\ "items" \in DOMAIN json => OnlySupportedKeys(json["items"])

\* C23: the JSON serialized for a schema holds, at the root, in each value of
\* properties and in items, only the nine supported keys; two schemas that
\* differ in other fields only serialize to the same JSON.
C23_OnlySupportedKeys ==
    /\ \A j \in json_a \cup json_b : OnlySupportedKeys(j)
    /\ (json_a # None /\ json_b # None) => json_a = json_b

\* both serialized; the schemas have catch-all fields at different levels, one
\* of them under items under properties
C23_Witness ==
    /\ json_a # None /\ json_b # None
    /\ schema_a # schema_b
    /\ schema_a.additional # NoEntries
    /\ schema_b.additional = NoEntries
    /\ \E p \in schema_b.properties :
         \E i \in p["param"].items :
            /\ i.additional # NoEntries
            /\ i.pattern # None

\* ------------------------------------------------------------------------
\* Properties of the metrics
\* ------------------------------------------------------------------------
\* C31: every MetricsSnapshot that snapshot returns has total_calls equal to
\* successful_transformations + failed_transformations, also when
\* record_transformation, record_failure or reset run concurrently.
C31_SnapshotAddsUp ==
    \A t \in Tasks :
        metrics_result[t].op = "snapshot"
            => metrics_result[t].snapshot.total_calls
                 = metrics_result[t].snapshot.successful_transformations
                     + metrics_result[t].snapshot.failed_transformations

\* ------------------------------------------------------------------------
\* Properties of the response stream
\* ------------------------------------------------------------------------
\* the bytes of the Ok items, concatenated
RECURSIVE Wire(_)
Wire(items) ==
    IF Len(items) = 0 THEN <<>>
    ELSE (IF items[1].ok THEN items[1].value ELSE <<>>) \o Wire(Tail(items))

\* the events of all generate_events calls, in call order, concatenated
RECURSIVE ReturnedBytes(_)
ReturnedBytes(rs) ==
    IF Len(rs) = 0 THEN <<>>
    ELSE Frames(rs[1].events) \o ReturnedBytes(Tail(rs))

\* what tells the frames of a part from those of another: the text, or the
\* name of the function
PartKeys(parts) ==
    [ i \in 1..Len(parts) |->
        IF parts[i].kind = "Text" THEN parts[i].text ELSE parts[i].name ]

IsPartFrame(f) ==
    \/ f.type = "content_block_delta" /\ f.delta = "text_delta"
    \/ f.type = "content_block_start" /\ f.block = "tool_use"

RECURSIVE FrameKeys(_)
FrameKeys(fs) ==
    IF Len(fs) = 0 THEN <<>>
    ELSE IF IsPartFrame(fs[1])
         THEN <<IF fs[1].type = "content_block_delta" THEN fs[1].text ELSE fs[1].name>>
              \o FrameKeys(Tail(fs))
         ELSE FrameKeys(Tail(fs))

\* the parts of the first candidate of a chunk
FirstParts(chunk) ==
    IF Len(chunk.candidates) = 0 THEN <<>>
    ELSE LET cs == chunk.candidates[1].content
         IN  IF cs = None THEN <<>> ELSE (CHOOSE c \in cs : TRUE).parts

\* the frames on the wire that belong to the k-th generate_events call
WireOfCall(k) ==
    LET w == Wire(yielded)
        before == Len(ReturnedBytes(SubSeq(returned, 1, k - 1)))
        n == Len(Frames(returned[k].events))
    IN  SubSeq(w, before + 1, before + n)

\* C32: the bytes the stream of transform_to_sse has yielded, concatenated, are
\* the events generate_events returned for the parsed chunks, in parser order,
\* concatenated; and within a chunk the frames of part i come before those of
\* every later part.
C32_WireIsEventsInOrder ==
    /\ Wire(yielded) = ReturnedBytes(returned)
    /\ \A k \in 1..Len(returned) :
           FrameKeys(WireOfCall(k)) = PartKeys(FirstParts(returned[k].chunk))

\* three items were yielded: one carrying the events of two chunks, whose
\* parts come in different orders, one empty, and one carrying a finish
C32_Witness ==
    /\ Len(yielded) = 3 /\ Len(returned) = 3
    /\ \A i \in 1..3 : yielded[i].ok
    /\ yielded[2].value = <<>>
    /\ \A k \in 1..2 : Len(FirstParts(returned[k].chunk)) = 2
    /\ FirstParts(returned[1].chunk)[1].kind = "Text"
    /\ FirstParts(returned[2].chunk)[1].kind = "FunctionCall"
    /\ returned[2].events # <<>>
    /\ Len(yielded[1].value) = Len(Frames(returned[1].events))
                                 + Len(Frames(returned[2].events))
    /\ CountType(yielded[3].value, "message_stop") = 1

\* ------------------------------------------------------------------------
\* Properties of the handler
\* ------------------------------------------------------------------------
StepRank(step) ==
    CASE step = "validate" -> 1
      [] step = "validate_tools" -> 2
      [] step = "transform" -> 3
      [] step = "upstream" -> 4
      [] step = "stream" -> 5

Failed(res) == \E r \in res : ~r.ok

\* C33: a request that fails the message or the tool validation is answered
\* 400, one whose transformation fails 500, one whose upstream call fails 502;
\* the steps run in the order validate, transform, upstream call, stream; and
\* when the validation or the transformation fails, no upstream request is
\* made and the correlation store is left as it was.
C33_StatusAndOrder ==
    /\ \A i \in 1..Len(handler.steps) : \A j \in 1..Len(handler.steps) :
           i < j => StepRank(handler.steps[i]) < StepRank(handler.steps[j])
    /\ (Failed(handler.validation) \/ Failed(handler.tools_validation)
           \/ Failed(handler.transformation))
          => /\ handler.upstream_requests = 0
             /\ tool_mappings = handler.store_before
    /\ handler.pc = "done"
          => /\ (Failed(handler.validation) \/ Failed(handler.tools_validation))
                   => handler.status = Some(BAD_REQUEST)
             /\ Failed(handler.transformation)
                   => handler.status = Some(INTERNAL_SERVER_ERROR)
             /\ Failed(handler.upstream) => handler.status = Some(BAD_GATEWAY)

\* a request with valid tools passed both validations and failed in the
\* transformer, with a store that held an entry
C33_Witness ==
    /\ handler.pc = "done"
    /\ handler.steps = <<"validate", "validate_tools", "transform">>
    /\ Failed(handler.transformation)
    /\ handler.status = Some(INTERNAL_SERVER_ERROR)
    /\ handler.store_before # {}

====
